---- MODULE Spec2Model ----
(***************************************************************************)
(* A model of the setup codec of auriga-setup-ai                           *)
(* (packages/setup-parser): the SetupParser class, its dialect registry,   *)
(* the two built-in car mappings and the INI text layer it sits on.        *)
(*                                                                         *)
(* JavaScript values are tagged records of one shape, so that any two can  *)
(* be compared.  A string is a sequence of lexemes ("atoms"): one atom per *)
(* character of a numeric literal (digits, sign, point) and one atom per   *)
(* other word.  A number is an IEEE-754 binary64 value, written            *)
(*   [m, e, u]  =  the double nearest to m / 10^e, moved by u ulps,        *)
(* and the arithmetic of the value transformations (x * 1000, x / 1000) is *)
(* carried out on the 53-bit significand, with round-to-nearest-even.      *)
(***************************************************************************)
EXTENDS Integers, Sequences, FiniteSets, TLC

(***************************************************************************)
(* Bounds of the model                                                     *)
(***************************************************************************)
\* largest decimal mantissa |m| a number of the model may have
MaxMantissa == 2000000000
\* largest count of decimals e a number of the model may have
MaxDecimals == 6
\* largest distance |u|, in ulps, of a number from its decimal
MaxUlps == 2
\* longest pipeline of parseString / convertToSto calls on one value
MaxChain == 4
\* the integers -MaxSample..MaxSample are tried on the value transformations
MaxSample == 12

(***************************************************************************)
(* JavaScript values                                                       *)
(***************************************************************************)
Num(m, e, u) == [t |-> "num", m |-> m, e |-> e, u |-> u, s |-> <<>>]
NaN == [t |-> "nan", m |-> 0, e |-> 0, u |-> 0, s |-> <<>>]
Str(s) == [t |-> "str", m |-> 0, e |-> 0, u |-> 0, s |-> s]
Bool(b) == [t |-> "bool", m |-> IF b THEN 1 ELSE 0, e |-> 0, u |-> 0, s |-> <<>>]
Null == [t |-> "null", m |-> 0, e |-> 0, u |-> 0, s |-> <<>>]
Undefined == [t |-> "undefined", m |-> 0, e |-> 0, u |-> 0, s |-> <<>>]
Obj == [t |-> "object", m |-> 0, e |-> 0, u |-> 0, s |-> <<>>]
\* a number outside the range of the model (never part of a reachable state)
OutOfRange == [t |-> "range", m |-> 0, e |-> 0, u |-> 0, s |-> <<>>]
Int0(n) == Num(n, 0, 0)
Word(w) == Str(<<w>>)

\* ToBoolean: what `x || y` and `if (x)` test
Truthy(v) ==
  CASE v.t = "num" -> v.m # 0 \/ v.u # 0
    [] v.t = "str" -> v.s # <<>>
    [] v.t = "bool" -> v.m = 1
    [] v.t = "object" -> TRUE
    [] OTHER -> FALSE

\* a || b
OrElse(a, b) == IF Truthy(a) THEN a ELSE b

Abs(n) == IF n < 0 THEN -n ELSE n
Sign(n) == IF n < 0 THEN -1 ELSE 1

RECURSIVE Pow10(_)
Pow10(n) == IF n = 0 THEN 1 ELSE 10 * Pow10(n - 1)

(***************************************************************************)
(* IEEE-754 binary64 arithmetic on the significand.  A positive double is  *)
(* [f, x]: f its 53 significand bits, most significant first (f[1] = 1),   *)
(* x the binary exponent of f[1].  JavaScript numbers are such doubles and *)
(* `*` and `/` round to nearest, ties to even.                             *)
(***************************************************************************)
RECURSIVE IntBits(_)
IntBits(n) == IF n = 0 THEN <<>> ELSE Append(IntBits(n \div 2), n % 2)

RECURSIVE BitsToInt(_)
BitsToInt(b) ==
  IF b = <<>> THEN 0 ELSE 2 * BitsToInt(SubSeq(b, 1, Len(b) - 1)) + b[Len(b)]

Zeros(n) == [i \in 1..n |-> 0]
Reverse(q) == [i \in 1..Len(q) |-> q[Len(q) + 1 - i]]

\* n written on w bits
PadBits(n, w) == Zeros(w - Len(IntBits(n))) \o IntBits(n)

Pow2(c) == BitsToInt(<<1>> \o Zeros(c))

\* how many quotient bits one step of a division by d yields without overflow
ChunkOf(d) == IF d <= 1000 THEN 20 ELSE IF d <= 1000000 THEN 10 ELSE 4

\* the next n bits of the binary expansion of r / d, for 0 <= r < d
RECURSIVE FracBits(_, _, _)
FracBits(r, d, n) ==
  IF n = 0 THEN <<>>
  ELSE LET c == IF n < ChunkOf(d) THEN n ELSE ChunkOf(d)
           t == r * Pow2(c)
       IN PadBits(t \div d, c) \o FracBits(t % d, d, n - c)

\* the remainder left after those n bits
RECURSIVE FracRem(_, _, _)
FracRem(r, d, n) ==
  IF n = 0 THEN r
  ELSE LET c == IF n < ChunkOf(d) THEN n ELSE ChunkOf(d)
       IN FracRem((r * Pow2(c)) % d, d, n - c)

\* bits + 1 (one bit longer when every bit was 1)
IncBits(b) ==
  IF \A i \in 1..Len(b) : b[i] = 1 THEN <<1>> \o Zeros(Len(b))
  ELSE LET p == CHOOSE i \in 1..Len(b) : b[i] = 0 /\ \A j \in (i + 1)..Len(b) : b[j] = 1
       IN [i \in 1..Len(b) |-> IF i < p THEN b[i] ELSE IF i = p THEN 1 ELSE 0]

\* bits - 1, for bits that hold a 1
DecBits(b) ==
  LET p == CHOOSE i \in 1..Len(b) : b[i] = 1 /\ \A j \in (i + 1)..Len(b) : b[j] = 0
  IN [i \in 1..Len(b) |-> IF i < p THEN b[i] ELSE IF i = p THEN 0 ELSE 1]

FirstOne(S) == CHOOSE p \in 1..Len(S) : S[p] = 1 /\ \A q \in 1..(p - 1) : S[q] = 0

\* the bit stream S (S[1] of binary exponent x1, `sticky` when nonzero bits
\* follow it) rounded to 53 bits, to nearest, ties to even
RoundBits(S, x1, sticky) ==
  LET p == FirstOne(S)
      T == SubSeq(S, p, Len(S)) \o Zeros(54)
      F == SubSeq(T, 1, 53)
      st == sticky \/ \E i \in 55..Len(T) : T[i] = 1
      up == T[54] = 1 /\ (st \/ F[53] = 1)
      G == IF up THEN IncBits(F) ELSE F
  IN IF Len(G) = 54 THEN [f |-> SubSeq(G, 1, 53), x |-> x1 - (p - 1) + 1]
     ELSE [f |-> G, x |-> x1 - (p - 1)]

\* the double nearest to m / 10^e, for m > 0
ToBin(m, e) ==
  LET d == Pow10(e)
      ib == IntBits(m \div d)
  IN RoundBits(ib \o FracBits(m % d, d, 80), Len(ib) - 1, FracRem(m % d, d, 80) # 0)

MinF == <<1>> \o Zeros(52)
MaxF == [i \in 1..53 |-> 1]

NextUp(B) ==
  IF B.f = MaxF THEN [f |-> MinF, x |-> B.x + 1] ELSE [f |-> IncBits(B.f), x |-> B.x]
NextDown(B) ==
  IF B.f = MinF THEN [f |-> MaxF, x |-> B.x - 1] ELSE [f |-> DecBits(B.f), x |-> B.x]

\* B moved by u ulps
RECURSIVE ShiftUlps(_, _)
ShiftUlps(B, u) ==
  IF u = 0 THEN B
  ELSE IF u > 0 THEN ShiftUlps(NextUp(B), u - 1)
  ELSE ShiftUlps(NextDown(B), u + 1)

\* fl(B * k), for k <= 2000: the exact product by 20-bit limbs, then rounded
MulBin(B, k) ==
  LET t0 == BitsToInt(SubSeq(B.f, 34, 53)) * k
      t1 == BitsToInt(SubSeq(B.f, 14, 33)) * k + t0 \div 1048576
      t2 == BitsToInt(SubSeq(B.f, 1, 13)) * k + t1 \div 1048576
      P == IntBits(t2) \o PadBits(t1 % 1048576, 20) \o PadBits(t0 % 1048576, 20)
  IN RoundBits(P, B.x - 52 + Len(P) - 1, FALSE)

\* quotient bits of bits (most significant first) by k <= 2000, from remainder r
RECURSIVE LongDiv(_, _, _)
LongDiv(b, k, r) ==
  IF b = <<>> THEN <<>>
  ELSE LET c == IF Len(b) < 20 THEN Len(b) ELSE 20
           t == r * Pow2(c) + BitsToInt(SubSeq(b, 1, c))
       IN PadBits(t \div k, c) \o LongDiv(SubSeq(b, c + 1, Len(b)), k, t % k)

RECURSIVE LongRem(_, _, _)
LongRem(b, k, r) ==
  IF b = <<>> THEN r
  ELSE LET c == IF Len(b) < 20 THEN Len(b) ELSE 20
           t == r * Pow2(c) + BitsToInt(SubSeq(b, 1, c))
       IN LongRem(SubSeq(b, c + 1, Len(b)), k, t % k)

\* fl(B / k)
DivBin(B, k) ==
  LET D == B.f \o Zeros(64)
  IN RoundBits(LongDiv(D, k, 0), B.x, LongRem(D, k, 0) # 0)

\* F - G for two significands that are close (else a far value with its sign)
SigDiff(F, G) ==
  LET hf == BitsToInt(SubSeq(F, 1, 27))
      hg == BitsToInt(SubSeq(G, 1, 27))
      lf == BitsToInt(SubSeq(F, 28, 53))
      lg == BitsToInt(SubSeq(G, 28, 53))
  IN IF Abs(hf - hg) > 1 THEN Sign(hf - hg) * 1000000
     ELSE (hf - hg) * 67108864 + (lf - lg)

\* how many doubles B lies above B0
UlpsBetween(B, B0) ==
  IF B.x = B0.x THEN SigDiff(B.f, B0.f)
  ELSE IF B.x = B0.x + 1 THEN SigDiff(B.f, MinF) + SigDiff(MaxF, B0.f) + 1
  ELSE IF B.x + 1 = B0.x THEN -(SigDiff(B0.f, MinF) + SigDiff(MaxF, B.f) + 1)
  ELSE Sign(B.x - B0.x) * 1000000

(***************************************************************************)
(* Numbers [m, e, u]                                                       *)
(***************************************************************************)
\* m / 10^e without trailing zero decimals
RECURSIVE Normal(_, _)
Normal(m, e) ==
  IF m = 0 THEN <<0, 0>>
  ELSE IF e > 0 /\ m % 10 = 0 THEN Normal(m \div 10, e - 1)
  ELSE <<m, e>>

InRange(m, e) == Abs(m) <= MaxMantissa /\ e <= MaxDecimals

\* the double of a number other than zero, as magnitude
BinOf(v) == ShiftUlps(ToBin(Abs(v.m), v.e), Sign(v.m) * v.u)

\* the number that is the double B with sign sg, written against m / 10^e
NumOf(sg, B, m, e) ==
  IF ~InRange(m, e) THEN OutOfRange
  ELSE LET u == sg * UlpsBetween(B, ToBin(Abs(m), e))
       IN IF Abs(u) > MaxUlps THEN OutOfRange ELSE Num(m, e, u)

Neg(v) == IF v.t = "num" THEN Num(-v.m, v.e, -v.u) ELSE v

\* v * 1000 and v / 1000 in binary64
Times1000(v) ==
  IF v.t # "num" THEN v
  ELSE IF v.m = 0 THEN v
  ELSE IF v.e < 3 /\ Abs(v.m) > MaxMantissa \div Pow10(3 - v.e) THEN OutOfRange
  ELSE LET me == IF v.e >= 3 THEN <<v.m, v.e - 3>> ELSE <<v.m * Pow10(3 - v.e), 0>>
       IN NumOf(Sign(v.m), MulBin(BinOf(v), 1000), me[1], me[2])

Over1000(v) ==
  IF v.t # "num" THEN v
  ELSE IF v.m = 0 THEN v
  ELSE LET me == Normal(v.m, v.e + 3)
       IN NumOf(Sign(v.m), DivBin(BinOf(v), 1000), me[1], me[2])

(***************************************************************************)
(* Numbers as text.  Number::toString writes the shortest decimal that     *)
(* reads back as the same double: for [m, e, 0] the digits of m / 10^e; a  *)
(* double u ulps off prints a 17-digit decimal, which is written here as   *)
(* the digits of m / 10^e followed by one atom naming u.  (Exponent        *)
(* notation, used below 1e-6 and from 1e21, is outside the bounds.)        *)
(***************************************************************************)
DigitAtoms == <<"0", "1", "2", "3", "4", "5", "6", "7", "8", "9">>
IsDigit(a) == \E i \in 1..10 : DigitAtoms[i] = a
DigitVal(a) == (CHOOSE i \in 1..10 : DigitAtoms[i] = a) - 1

UlpAtom(u) == "ulp" \o ToString(u)
IsUlp(a) == \E u \in (-MaxUlps)..MaxUlps : u # 0 /\ UlpAtom(u) = a
UlpVal(a) == CHOOSE u \in (-MaxUlps)..MaxUlps : u # 0 /\ UlpAtom(u) = a

RECURSIVE Digits(_)
Digits(n) == IF n < 10 THEN <<DigitAtoms[n + 1]>> ELSE Append(Digits(n \div 10), DigitAtoms[(n % 10) + 1])

RECURSIVE DigitsVal(_)
DigitsVal(d) ==
  IF d = <<>> THEN 0 ELSE 10 * DigitsVal(SubSeq(d, 1, Len(d) - 1)) + DigitVal(d[Len(d)])

\* Number::toString of a finite number
NumToAtoms(v) ==
  LET d == Digits(Abs(v.m))
      p == IF Len(d) <= v.e THEN [i \in 1..(v.e + 1 - Len(d)) |-> "0"] \o d ELSE d
      n == Len(p) - v.e
  IN (IF v.m < 0 THEN <<"-">> ELSE <<>>)
       \o SubSeq(p, 1, n)
       \o (IF v.e > 0 THEN <<".">> \o SubSeq(p, n + 1, Len(p)) ELSE <<>>)
       \o (IF v.u # 0 THEN <<UlpAtom(v.u)>> ELSE <<>>)

\* how many digit atoms stand at a[i], a[i+1], ...
RECURSIVE DigitRun(_, _)
DigitRun(a, i) == IF i <= Len(a) /\ IsDigit(a[i]) THEN 1 + DigitRun(a, i + 1) ELSE 0

\* the longest decimal literal that starts the string a: [val, len], len = 0 if none
DecimalPrefix(a) ==
  LET sg == IF a # <<>> /\ a[1] \in {"-", "+"} THEN 1 ELSE 0
      il == DigitRun(a, sg + 1)
      dot == sg + il + 1 <= Len(a) /\ a[sg + il + 1] = "."
      fl == IF dot THEN DigitRun(a, sg + il + 2) ELSE 0
      end == sg + il + (IF dot /\ il + fl > 0 THEN 1 + fl ELSE 0)
      ul == end + 1 <= Len(a) /\ IsUlp(a[end + 1])
      digs == SubSeq(a, sg + 1, sg + il) \o (IF dot THEN SubSeq(a, sg + il + 2, sg + il + 1 + fl) ELSE <<>>)
      me == Normal(DigitsVal(digs), fl)
      m == IF sg = 1 /\ a[1] = "-" THEN -me[1] ELSE me[1]
  IN IF il + fl = 0 THEN [val |-> NaN, len |-> 0]
     ELSE [val |-> Num(m, me[2], IF ul THEN UlpVal(a[end + 1]) ELSE 0),
           len |-> end + (IF ul THEN 1 ELSE 0)]

\* ToString(v), as parseFloat and string concatenation apply it
ToStr(v) ==
  CASE v.t = "str" -> v.s
    [] v.t = "num" -> NumToAtoms(v)
    [] v.t = "nan" -> <<"NaN">>
    [] v.t = "bool" -> IF v.m = 1 THEN <<"true">> ELSE <<"false">>
    [] v.t = "null" -> <<"null">>
    [] v.t = "undefined" -> <<"undefined">>
    [] v.t = "range" -> <<"#range">>
    [] OTHER -> <<"[object Object]">>

\* the global parseFloat(v)
ParseFloat(v) == IF v.t = "num" THEN v ELSE DecimalPrefix(ToStr(v)).val

\* Number(s) of a string: the whole string must be a literal; "" is 0
StringToNumber(a) ==
  IF a = <<>> THEN Int0(0)
  ELSE IF DecimalPrefix(a).len = Len(a) THEN DecimalPrefix(a).val
  ELSE NaN

\* ToNumber(v), as unary minus, `/` and Number() apply it
ToNumber(v) ==
  CASE v.t = "num" -> v
    [] v.t = "str" -> StringToNumber(v.s)
    [] v.t = "bool" -> Int0(v.m)
    [] v.t = "null" -> Int0(0)
    [] OTHER -> NaN

(***************************************************************************)
(* JavaScript objects with string keys: a sequence of [k, v] entries in    *)
(* insertion order, one entry per key.                                     *)
(***************************************************************************)
Has(o, k) == \E i \in 1..Len(o) : o[i].k = k
At(o, k) == o[CHOOSE i \in 1..Len(o) : o[i].k = k].v
Put(o, k, v) ==
  IF Has(o, k)
  THEN LET i == CHOOSE j \in 1..Len(o) : o[j].k = k
       IN SubSeq(o, 1, i - 1) \o <<[k |-> k, v |-> v]>> \o SubSeq(o, i + 1, Len(o))
  ELSE Append(o, [k |-> k, v |-> v])
Del(o, k) == SelectSeq(o, LAMBDA en : en.k # k)
Keys(o) == {o[i].k : i \in 1..Len(o)}

\* a property of the raw table: a scalar, or an object of scalars (a section)
Scalar(v) == [sec |-> FALSE, val |-> v, kv |-> <<>>]
Section(kv) == [sec |-> TRUE, val |-> Obj, kv |-> kv]

\* o[k], undefined when o has no k
Prop(o, k) == IF Has(o, k) THEN At(o, k) ELSE Undefined
\* table[k] as a value, and table[k][j]
Top(table, k) == IF Has(table, k) THEN At(table, k).val ELSE Undefined
Sub(table, k, j) ==
  IF Has(table, k) /\ At(table, k).sec THEN Prop(At(table, k).kv, j) ELSE Undefined
\* table[k] || {}
SectionOrEmpty(table, k) ==
  IF Has(table, k) /\ At(table, k).sec THEN At(table, k).kv ELSE <<>>

(***************************************************************************)
(* The INI text layer (the npm package `ini`, as parser.ts calls it).  A   *)
(* text is its sequence of lines; a line is a section header "[name]", a   *)
(* pair "name=val", a bare key "name" (no "="), a comment or a blank.  A   *)
(* header that lacks its "]" is not a header for ini's line pattern: it is *)
(* a bare key.  Names are words without INI metacharacters, so ini's       *)
(* quoting and escaping (safe / unsafe) leave them as they are; dotted     *)
(* section names and "[]" array keys are outside the texts modelled.       *)
(***************************************************************************)
HeaderLine(n) == [k |-> "section", name |-> n, val |-> <<>>]
PairLine(n, a) == [k |-> "pair", name |-> n, val |-> a]
KeyLine(n) == [k |-> "key", name |-> n, val |-> <<>>]
CommentLine == [k |-> "comment", name |-> "", val |-> <<>>]
BlankLine == [k |-> "blank", name |-> "", val |-> <<>>]

\* ini decode: the value of a pair, after unsafe(): 'true', 'false' and
\* 'null' become the literal, anything else stays a string
IniValue(a) ==
  IF a = <<"true">> THEN Bool(TRUE)
  ELSE IF a = <<"false">> THEN Bool(FALSE)
  ELSE IF a = <<"null">> THEN Null
  ELSE Str(a)

\* ini decode of one line: out is the table so far, cur the section that
\* pairs go to ("" at the top level, "#" when out[section] is a truthy
\* scalar, which takes no properties)
IniLine(ln, st) ==
  LET out == st.out
      cur == st.cur
      v == IF ln.k = "key" THEN Bool(TRUE) ELSE IniValue(ln.val)
  IN CASE ln.k = "section" ->
            IF Has(out, ln.name) /\ Truthy(At(out, ln.name).val)
            THEN [out |-> out, cur |-> IF At(out, ln.name).sec THEN ln.name ELSE "#"]
            ELSE [out |-> Put(out, ln.name, Section(<<>>)), cur |-> ln.name]
       [] ln.k \in {"pair", "key"} ->
            IF cur = "" THEN [out |-> Put(out, ln.name, Scalar(v)), cur |-> cur]
            ELSE IF cur = "#" THEN st
            ELSE [out |-> Put(out, cur, Section(Put(At(out, cur).kv, ln.name, v))), cur |-> cur]
       [] OTHER -> st

\* the loop over the lines, from line i on
RECURSIVE IniDecode(_, _, _)
IniDecode(lines, st, i) ==
  IF i > Len(lines) THEN st.out
  ELSE CHOOSE out \in {IniDecode(lines, s, j) : s \in {IniLine(lines[i], st)}, j \in {i + 1}} : TRUE

\* ini.parse(content)
IniParse(content) == IniDecode(content, [out |-> <<>>, cur |-> ""], 1)

\* a variant of safe(val) that writes a boolean as 1 or 0
IniSafeBoolAsDigit(v) ==
  CASE v.t = "str" -> v.s
    [] v.t = "nan" -> <<"null">>
    [] v.t = "bool" -> IF v.m = 1 THEN <<"1">> ELSE <<"0">>
    [] OTHER -> ToStr(v)

\* ini encode: safe(val) of a scalar; a non-string goes through
\* JSON.stringify (NaN is written null, undefined is concatenated as such)
IniSafe(v) ==
  CASE v.t = "str" -> v.s
    [] v.t = "nan" -> <<"null">>
    [] OTHER -> ToStr(v)

\* the pair lines of an object's scalar properties
PairLines(kv) ==
  LET sc == SelectSeq(kv, LAMBDA en : en.v.t # "object")
  IN [i \in 1..Len(sc) |-> PairLine(sc[i].k, IniSafe(sc[i].v))]

\* the text of the sections: a section without scalar properties writes nothing
RECURSIVE SectionLines(_, _)
SectionLines(secs, before) ==
  IF secs = <<>> THEN <<>>
  ELSE LET body == PairLines(Head(secs).v.kv)
           mine == IF body = <<>> THEN <<>>
                   ELSE (IF before THEN <<BlankLine>> ELSE <<>>)
                          \o <<HeaderLine(Head(secs).k)>> \o body
       IN mine \o SectionLines(Tail(secs), before \/ mine # <<>>)

\* ini.stringify(table): the top-level scalars, then each section
IniStringify(table) ==
  LET tops == SelectSeq(table, LAMBDA en : ~en.v.sec)
      lines == [i \in 1..Len(tops) |-> PairLine(tops[i].k, IniSafe(tops[i].v.val))]
  IN lines \o SectionLines(SelectSeq(table, LAMBDA en : en.v.sec), lines # <<>>)

(***************************************************************************)
(* Car mappings (CarMappingConfig).  A field path 'a.b.c' is the sequence  *)
(* of its parts, <<"a", "b", "c">>: what path.split('.') returns.          *)
(* fieldMappings lists its sections, and each section its entries, in the  *)
(* order the object literal gives them.                                    *)
(***************************************************************************)
Field(target, source) == [target |-> target, source |-> source]

ferrari488GT3Mapping ==
  [carId |-> "ferrari_488_gt3",
   fieldMappings |-> <<
     [section |-> "TIRE", fields |-> <<
        Field(<<"tirePressures", "frontLeft">>, "PRESSURE_LF"),
        Field(<<"tirePressures", "frontRight">>, "PRESSURE_RF"),
        Field(<<"tirePressures", "rearLeft">>, "PRESSURE_LR"),
        Field(<<"tirePressures", "rearRight">>, "PRESSURE_RR")>>],
     [section |-> "SUSPENSION", fields |-> <<
        Field(<<"suspension", "front", "springRate">>, "SPRING_RATE_LF"),
        Field(<<"suspension", "front", "rideHeight">>, "RIDE_HEIGHT_LF"),
        Field(<<"suspension", "front", "camber">>, "CAMBER_LF"),
        Field(<<"suspension", "front", "toe">>, "TOE_LF"),
        Field(<<"suspension", "front", "antiRollBar">>, "ARB_FRONT"),
        Field(<<"suspension", "rear", "springRate">>, "SPRING_RATE_LR"),
        Field(<<"suspension", "rear", "rideHeight">>, "RIDE_HEIGHT_LR"),
        Field(<<"suspension", "rear", "camber">>, "CAMBER_LR"),
        Field(<<"suspension", "rear", "toe">>, "TOE_LR"),
        Field(<<"suspension", "rear", "antiRollBar">>, "ARB_REAR"),
        Field(<<"dampers", "front", "bump">>, "BUMP_LF"),
        Field(<<"dampers", "front", "rebound">>, "REBOUND_LF"),
        Field(<<"dampers", "rear", "bump">>, "BUMP_LR"),
        Field(<<"dampers", "rear", "rebound">>, "REBOUND_LR")>>],
     [section |-> "AERO", fields |-> <<
        Field(<<"aero", "rearWing">>, "WING_REAR")>>],
     [section |-> "BRAKE", fields |-> <<
        Field(<<"brakeBias">>, "BIAS")>>],
     [section |-> "DIFFERENTIAL", fields |-> <<
        Field(<<"differential", "preload">>, "PRELOAD"),
        Field(<<"differential", "powerRamp">>, "POWER_RAMP"),
        Field(<<"differential", "coastRamp">>, "COAST_RAMP")>>]>>,
   valueTransformations |-> <<
     [k |-> <<"suspension", "front", "camber">>, v |-> "ferrariCamber"],
     [k |-> <<"suspension", "rear", "camber">>, v |-> "ferrariCamber"]>>]

porsche911GT3RMapping ==
  [carId |-> "porsche_911_gt3r",
   fieldMappings |-> <<
     [section |-> "TIRE", fields |-> <<
        Field(<<"tirePressures", "frontLeft">>, "LEFT_FRONT"),
        Field(<<"tirePressures", "frontRight">>, "RIGHT_FRONT"),
        Field(<<"tirePressures", "rearLeft">>, "LEFT_REAR"),
        Field(<<"tirePressures", "rearRight">>, "RIGHT_REAR")>>],
     [section |-> "SUSPENSION", fields |-> <<
        Field(<<"suspension", "front", "springRate">>, "FRONT_SPRING_RATE"),
        Field(<<"suspension", "front", "rideHeight">>, "FRONT_RIDE_HEIGHT"),
        Field(<<"suspension", "front", "camber">>, "FRONT_CAMBER"),
        Field(<<"suspension", "front", "toe">>, "FRONT_TOE"),
        Field(<<"suspension", "front", "antiRollBar">>, "FRONT_ARB"),
        Field(<<"suspension", "rear", "springRate">>, "REAR_SPRING_RATE"),
        Field(<<"suspension", "rear", "rideHeight">>, "REAR_RIDE_HEIGHT"),
        Field(<<"suspension", "rear", "camber">>, "REAR_CAMBER"),
        Field(<<"suspension", "rear", "toe">>, "REAR_TOE"),
        Field(<<"suspension", "rear", "antiRollBar">>, "REAR_ARB"),
        Field(<<"dampers", "front", "bump">>, "FRONT_BUMP"),
        Field(<<"dampers", "front", "rebound">>, "FRONT_REBOUND"),
        Field(<<"dampers", "rear", "bump">>, "REAR_BUMP"),
        Field(<<"dampers", "rear", "rebound">>, "REAR_REBOUND")>>],
     [section |-> "AERO", fields |-> <<
        Field(<<"aero", "rearWing">>, "REAR_WING")>>],
     [section |-> "BRAKE", fields |-> <<
        Field(<<"brakeBias">>, "BRAKE_BIAS")>>],
     [section |-> "DIFFERENTIAL", fields |-> <<
        Field(<<"differential", "preload">>, "DIFF_PRELOAD"),
        Field(<<"differential", "powerRamp">>, "DIFF_ENTRY"),
        Field(<<"differential", "coastRamp">>, "DIFF_EXIT")>>]>>,
   valueTransformations |-> <<
     [k |-> <<"suspension", "front", "springRate">>, v |-> "porscheSpringRate"],
     [k |-> <<"suspension", "rear", "springRate">>, v |-> "porscheSpringRate"],
     [k |-> <<"suspension", "front", "camber">>, v |-> "porscheCamber"],
     [k |-> <<"suspension", "rear", "camber">>, v |-> "porscheCamber"]>>]

\* variants of the transformation functions with a slip: a sign that is
\* not flipped, a spring rate that is not divided
ferrariCamberFromRawSameSign(value) == ParseFloat(value)
ferrariCamberToRawSameSign(value) == ToNumber(value)
porscheSpringRateToRawUndivided(value) == ToNumber(value)
porscheCamberToRawSameSign(value) == ToNumber(value)

\* the transformation functions of the two mappings
ferrariCamberFromRaw(value) == Neg(ParseFloat(value))
ferrariCamberToRaw(value) == Neg(ToNumber(value))
porscheSpringRateFromRaw(value) == Times1000(ParseFloat(value))
porscheSpringRateToRaw(value) == Over1000(ToNumber(value))
porscheCamberFromRaw(value) == Neg(ParseFloat(value))
porscheCamberToRaw(value) == Neg(ToNumber(value))

\* transformation.fromRaw(value) and transformation.toRaw(value)
FromRaw(tr, value) ==
  CASE tr = "ferrariCamber" -> ferrariCamberFromRaw(value)
    [] tr = "porscheSpringRate" -> porscheSpringRateFromRaw(value)
    [] tr = "porscheCamber" -> porscheCamberFromRaw(value)
    [] OTHER -> value
ToRaw(tr, value) ==
  CASE tr = "ferrariCamber" -> ferrariCamberToRaw(value)
    [] tr = "porscheSpringRate" -> porscheSpringRateToRaw(value)
    [] tr = "porscheCamber" -> porscheCamberToRaw(value)
    [] OTHER -> value

\* the entries of fieldMappings in the order the two nested loops visit them
RECURSIVE MappingEntries(_)
MappingEntries(fm) ==
  IF fm = <<>> THEN <<>>
  ELSE [i \in 1..Len(Head(fm).fields) |->
          [section |-> Head(fm).section,
           target |-> Head(fm).fields[i].target,
           source |-> Head(fm).fields[i].source]]
       \o MappingEntries(Tail(fm))

\* the field paths a mapping maps, and the paths of its
\* valueTransformations that no section maps
MappedPaths(m) ==
  {MappingEntries(m.fieldMappings)[j].target : j \in 1..Len(MappingEntries(m.fieldMappings))}
Orphans(m) ==
  {m.valueTransformations[j].k : j \in 1..Len(m.valueTransformations)} \ MappedPaths(m)

(***************************************************************************)
(* The structured setup (ParsedSetup): p maps each path that holds a       *)
(* property to its value (Obj for a nested object), gears is the           *)
(* gearRatios array and extra the additionalSettings object; each of the   *)
(* two exists when p has its path.                                         *)
(***************************************************************************)
Paths(seq) == {seq[i][1] : i \in 1..Len(seq)}
Props(seq) == [x \in Paths(seq) |-> seq[CHOOSE i \in 1..Len(seq) : seq[i][1] = x][2]]
With(p, path, value) == (path :> value) @@ p
Prefix(path, i) == SubSeq(path, 1, i)

\* obj.a.b.c read part by part
getNestedProperty(setup, path) ==
  IF \E i \in 1..(Len(path) - 1) :
       \/ Prefix(path, i) \notin DOMAIN setup.p
       \/ setup.p[Prefix(path, i)].t \in {"undefined", "null"}
  THEN Undefined
  ELSE IF path \in DOMAIN setup.p THEN setup.p[path] ELSE Undefined

\* a part of the path before the last holds a value that is no object
PathConflict(setup, path) ==
  \E i \in 1..(Len(path) - 1) :
     /\ Prefix(path, i) \in DOMAIN setup.p
     /\ setup.p[Prefix(path, i)].t \notin {"object", "undefined"}

\* the loop of setNestedProperty: every missing part before the last becomes {}
RECURSIVE Vivify(_, _, _)
Vivify(p, path, i) ==
  IF i >= Len(path) THEN p
  ELSE IF Prefix(path, i) \in DOMAIN p /\ p[Prefix(path, i)].t # "undefined"
       THEN Vivify(p, path, i + 1)
       ELSE Vivify(With(p, Prefix(path, i), Obj), path, i + 1)

\* setNestedProperty(obj, path, value); a write through a value that is no
\* object has no effect on obj
setNestedProperty(setup, path, value) ==
  IF PathConflict(setup, path) THEN setup
  ELSE [setup EXCEPT !.p = With(Vivify(setup.p, path, 1), path, value)]

\* a variant of the outcome in which no write is ever refused
setNestedPropertyNeverThrows(setup, path, strict) == FALSE

\* setNestedProperty(obj, path, value) throws a TypeError of the runtime:
\* with i the first part that holds a value that is no object, current is
\* that value after part i.  null: the next read or write of a property
\* throws.  A number or a string: in strict code the next write of a
\* property throws; in code that is not strict the write has no effect,
\* and current is undefined after the next part of the loop, so the write
\* after that one throws.
setNestedPropertyThrows(setup, path, strict) ==
  LET at == {i \in 1..(Len(path) - 1) :
               /\ Prefix(path, i) \in DOMAIN setup.p
               /\ setup.p[Prefix(path, i)].t \notin {"object", "undefined"}}
  IN /\ at # {}
     /\ LET i == CHOOSE i \in at : \A j \in at : i <= j
        IN \/ setup.p[Prefix(path, i)].t = "null"
           \/ strict
           \/ i < Len(path) - 1

(***************************************************************************)
(* SetupParser                                                             *)
(***************************************************************************)
\* variants of the registration: one that keeps the definition a carId
\* already has, one that leaves out a definition with an orphan path
MapSetKeepFirst(map, mapping) ==
  IF mapping.carId \in DOMAIN map THEN map ELSE (mapping.carId :> mapping) @@ map
MapSetChecked(map, mapping) ==
  IF Orphans(mapping) # {} THEN map ELSE (mapping.carId :> mapping) @@ map

\* this.carMappings.set(mapping.carId, mapping), on a Map from carId to mapping
MapSet(map, mapping) ==
  (mapping.carId :> mapping) @@ map

\* new SetupParser(carMappingsArray): the Map after the constructor's loop
RECURSIVE Construct(_, _)
Construct(map, carMappingsArray) ==
  IF carMappingsArray = <<>> THEN map
  ELSE Construct(MapSet(map, Head(carMappingsArray)), Tail(carMappingsArray))

\* a carId value as a key of the Map: a one-word string is that word
IsRegistered(map, id) == id.t = "str" /\ Len(id.s) = 1 /\ id.s[1] \in DOMAIN map
\* the name of the mapping this.carMappings.get(id) selects
MappingFor(map, id) == IF IsRegistered(map, id) THEN map[id.s[1]] ELSE [carId |-> ""]

\* a variant of parseIniString that takes a header key from the first
\* place that has it: the top level, or else a section
parseIniStringAnywhere(content, now) ==
  LET parsed == IniParse(content)
      secs == SelectSeq(parsed, LAMBDA en : en.v.sec)
      Anywhere(key) == IF Has(parsed, key) /\ ~At(parsed, key).sec THEN Top(parsed, key)
                  ELSE LET has == SelectSeq(secs, LAMBDA en : Has(en.v.kv, key))
                       IN IF has = <<>> THEN Undefined ELSE At(has[1].v.kv, key)
      header == [version |-> OrElse(Anywhere("VERSION"), Str(<<"1", ".", "0">>)),
                 carIdentifier |-> OrElse(Anywhere("CAR"), Str(<<>>)),
                 trackIdentifier |-> OrElse(Anywhere("TRACK"), Str(<<>>)),
                 name |-> OrElse(Anywhere("ACTIVE"), Word("Unnamed Setup")),
                 timestamp |-> OrElse(Top(parsed, "TIMESTAMP"), Word(now))]
      rest == Del(Del(Del(Del(parsed, "VERSION"), "CAR"), "TRACK"), "TIMESTAMP")
  IN [header |-> header,
      sections |-> SelectSeq(rest, LAMBDA en : en.v.sec \/ en.v.val.t = "null")]

\* parseIniString(content); now is what new Date().toISOString() returns
parseIniString(content, now) ==
  LET parsed == IniParse(content)
      header == [version |-> OrElse(Top(parsed, "VERSION"), Str(<<"1", ".", "0">>)),
                 carIdentifier |-> OrElse(Top(parsed, "CAR"), Str(<<>>)),
                 trackIdentifier |-> OrElse(Top(parsed, "TRACK"), Str(<<>>)),
                 name |-> OrElse(Sub(parsed, "SETUPS", "ACTIVE"), Word("Unnamed Setup")),
                 timestamp |-> OrElse(Top(parsed, "TIMESTAMP"), Word(now))]
      rest == Del(Del(Del(Del(parsed, "VERSION"), "CAR"), "TRACK"), "TIMESTAMP")
  IN [header |-> header,
      \* typeof parsed[key] === 'object': the sections, and a top-level null
      sections |-> SelectSeq(rest, LAMBDA en : en.v.sec \/ en.v.val.t = "null")]

\* a variant of parseNumber that lets NaN through
parseNumberKeepNaN(value) ==
  CASE value.t = "num" -> value
    [] value.t = "str" -> ParseFloat(value)
    [] OTHER -> Int0(0)

\* parseNumber(value)
parseNumber(value) ==
  CASE value.t = "num" -> value
    [] value.t = "str" -> IF ParseFloat(value).t = "nan" THEN Int0(0) ELSE ParseFloat(value)
    [] OTHER -> Int0(0)

\* a variant of the initial setup that stamps every setup with the time of
\* the call, whatever TIMESTAMP the text has (and leaves the numbers to the mappings)
InitialSetupStamped(rawSetup, now) ==
  [p |-> Props(<<
     <<<<"carId">>, rawSetup.header.carIdentifier>>,
     <<<<"trackId">>, rawSetup.header.trackIdentifier>>,
     <<<<"name">>, rawSetup.header.name>>,
     <<<<"suspension">>, Obj>>,
     <<<<"suspension", "front">>, Obj>>,
     <<<<"suspension", "rear">>, Obj>>,
     <<<<"dampers">>, Obj>>,
     <<<<"dampers", "front">>, Obj>>,
     <<<<"dampers", "rear">>, Obj>>,
     <<<<"tirePressures">>, Obj>>,
     <<<<"aero">>, Obj>>,
     <<<<"brakeBias">>, Int0(50)>>,
     <<<<"metadata">>, Obj>>,
     <<<<"metadata", "created">>, Word(now)>>,
     <<<<"metadata", "modified">>, Word(now)>>,
     <<<<"metadata", "version">>, rawSetup.header.version>>
   >>),
   gears |-> <<>>,
   extra |-> <<>>]

\* the setup convertToStructured starts from
InitialSetup(rawSetup, now) ==
  [p |-> Props(<<
     <<<<"carId">>, rawSetup.header.carIdentifier>>,
     <<<<"trackId">>, rawSetup.header.trackIdentifier>>,
     <<<<"name">>, rawSetup.header.name>>,
     <<<<"suspension">>, Obj>>,
     <<<<"suspension", "front">>, Obj>>,
     <<<<"suspension", "front", "springRate">>, Int0(0)>>,
     <<<<"suspension", "front", "rideHeight">>, Int0(0)>>,
     <<<<"suspension", "front", "camber">>, Int0(0)>>,
     <<<<"suspension", "front", "toe">>, Int0(0)>>,
     <<<<"suspension", "front", "antiRollBar">>, Int0(0)>>,
     <<<<"suspension", "rear">>, Obj>>,
     <<<<"suspension", "rear", "springRate">>, Int0(0)>>,
     <<<<"suspension", "rear", "rideHeight">>, Int0(0)>>,
     <<<<"suspension", "rear", "camber">>, Int0(0)>>,
     <<<<"suspension", "rear", "toe">>, Int0(0)>>,
     <<<<"suspension", "rear", "antiRollBar">>, Int0(0)>>,
     <<<<"dampers">>, Obj>>,
     <<<<"dampers", "front">>, Obj>>,
     <<<<"dampers", "front", "bump">>, Int0(0)>>,
     <<<<"dampers", "front", "rebound">>, Int0(0)>>,
     <<<<"dampers", "rear">>, Obj>>,
     <<<<"dampers", "rear", "bump">>, Int0(0)>>,
     <<<<"dampers", "rear", "rebound">>, Int0(0)>>,
     <<<<"tirePressures">>, Obj>>,
     <<<<"tirePressures", "frontLeft">>, Int0(0)>>,
     <<<<"tirePressures", "frontRight">>, Int0(0)>>,
     <<<<"tirePressures", "rearLeft">>, Int0(0)>>,
     <<<<"tirePressures", "rearRight">>, Int0(0)>>,
     <<<<"aero">>, Obj>>,
     <<<<"brakeBias">>, Int0(50)>>,
     <<<<"metadata">>, Obj>>,
     <<<<"metadata", "created">>, OrElse(rawSetup.header.timestamp, Word(now))>>,
     <<<<"metadata", "modified">>, OrElse(rawSetup.header.timestamp, Word(now))>>,
     <<<<"metadata", "version">>, rawSetup.header.version>>
   >>),
   gears |-> <<>>,
   extra |-> <<>>]

\* a variant of the loop body that leaves a numeric string a string
ApplyEntryAsRead(setup, rawSetup, mapping, en) ==
  LET rawValue == Sub(rawSetup.sections, en.section, en.source)
      value == IF Has(mapping.valueTransformations, en.target)
               THEN FromRaw(At(mapping.valueTransformations, en.target), rawValue)
               ELSE rawValue
  IN IF rawValue.t = "undefined" THEN setup
     ELSE setNestedProperty(setup, en.target, value)

\* a variant of the loop body that writes whatever it read, a missing
\* section or key included
ApplyEntryAlways(setup, rawSetup, mapping, en) ==
  LET rawValue == Sub(rawSetup.sections, en.section, en.source)
      value == IF Has(mapping.valueTransformations, en.target)
               THEN FromRaw(At(mapping.valueTransformations, en.target), rawValue)
               ELSE IF rawValue.t = "str" /\ StringToNumber(rawValue.s).t # "nan"
               THEN StringToNumber(rawValue.s)
               ELSE rawValue
  IN setNestedProperty(setup, en.target, value)

\* the body of applyCarMapping's inner loop for one entry
ApplyEntry(setup, rawSetup, mapping, en) ==
  LET rawValue == Sub(rawSetup.sections, en.section, en.source)
      value == IF Has(mapping.valueTransformations, en.target)
               THEN FromRaw(At(mapping.valueTransformations, en.target), rawValue)
               ELSE IF rawValue.t = "str" /\ StringToNumber(rawValue.s).t # "nan"
               THEN StringToNumber(rawValue.s)
               ELSE rawValue
  IN IF rawValue.t = "undefined" THEN setup
     ELSE setNestedProperty(setup, en.target, value)

\* the loops of applyCarMapping, from entry i on
RECURSIVE ApplyEntries(_, _, _, _, _)
ApplyEntries(setup, rawSetup, mapping, entries, i) ==
  IF i > Len(entries) THEN setup
  ELSE CHOOSE out \in {ApplyEntries(s, rawSetup, mapping, entries, j) :
                         s \in {ApplyEntry(setup, rawSetup, mapping, entries[i])}, j \in {i + 1}} : TRUE

\* applyCarMapping(setup, rawSetup, mapping)
applyCarMapping(setup, rawSetup, mapping) ==
  ApplyEntries(setup, rawSetup, mapping, MappingEntries(mapping.fieldMappings), 1)

\* a call of setNestedProperty in the loops of applyCarMapping, from entry
\* i on, throws
RECURSIVE ThrowsFrom(_, _, _, _, _, _)
ThrowsFrom(setup, rawSetup, mapping, entries, i, strict) ==
  IF i > Len(entries) THEN FALSE
  ELSE IF /\ Sub(rawSetup.sections, entries[i].section, entries[i].source).t # "undefined"
          /\ setNestedPropertyThrows(setup, entries[i].target, strict)
       THEN TRUE
       ELSE CHOOSE out \in {ThrowsFrom(s, rawSetup, mapping, entries, j, strict) :
                              s \in {ApplyEntry(setup, rawSetup, mapping, entries[i])},
                              j \in {i + 1}} : TRUE

\* applyCarMapping(setup, rawSetup, mapping) throws
applyCarMappingThrows(setup, rawSetup, mapping, strict) ==
  ThrowsFrom(setup, rawSetup, mapping, MappingEntries(mapping.fieldMappings), 1, strict)

\* a variant of the probe that takes the first key the section has
ProbeFirstPresent(section, a, b) ==
  parseNumber(IF Has(section, a) THEN At(section, a) ELSE Prop(section, b))

\* a variant of the probe that reads the first key only
ProbeFirstOnly(section, a, b) == parseNumber(Prop(section, a))

\* this.parseNumber(section[a] || section[b])
Probe(section, a, b) == parseNumber(OrElse(Prop(section, a), Prop(section, b)))
\* a variant of the probe with a default that leaves the field undefined
\* when the section has neither key
ProbeOrWhenFound(section, a, b, d) ==
  IF ~Has(section, a) /\ ~Has(section, b) THEN Undefined
  ELSE parseNumber(OrElse(OrElse(Prop(section, a), Prop(section, b)), Int0(d)))

\* this.parseNumber(section[a] || section[b] || d)
ProbeOr(section, a, b, d) ==
  parseNumber(OrElse(OrElse(Prop(section, a), Prop(section, b)), Int0(d)))

GearKey(i) == "GEAR_" \o ToString(i)

\* a variant of the gear ratios loop that ends at the first missing key
RECURSIVE GearRatiosUntilHole(_, _)
GearRatiosUntilHole(gearSection, i) ==
  IF i > 8 \/ ~Has(gearSection, GearKey(i)) THEN <<>>
  ELSE <<parseNumber(At(gearSection, GearKey(i)))>> \o GearRatiosUntilHole(gearSection, i + 1)

\* the gear ratios loop, from index i
RECURSIVE GearRatios(_, _)
GearRatios(gearSection, i) ==
  IF i > 8 THEN <<>>
  ELSE (IF Has(gearSection, GearKey(i)) /\ At(gearSection, GearKey(i)).t # "undefined"
        THEN <<parseNumber(At(gearSection, GearKey(i)))>> ELSE <<>>)
       \o GearRatios(gearSection, i + 1)

\* a variant of the list of sections already processed, without DAMPER
ProcessedSectionsButDamper == {"TIRE", "SUSPENSION", "AERO", "BRAKE", "DIFFERENTIAL", "GEARS"}

\* the sections the generic mapping skips when it fills additionalSettings
ProcessedSections == {"TIRE", "SUSPENSION", "DAMPER", "AERO", "BRAKE", "DIFFERENTIAL", "GEARS"}

\* a variant of the damper section that passes over a DAMPER section without keys
DamperSectionWithKeys(secs) ==
  IF Has(secs, "DAMPER") /\ At(secs, "DAMPER").sec /\ At(secs, "DAMPER").kv # <<>>
  THEN At(secs, "DAMPER").kv ELSE SectionOrEmpty(secs, "SUSPENSION")

\* rawSetup.sections['DAMPER'] || suspensionSection
DamperSection(secs) ==
  IF Has(secs, "DAMPER") /\ At(secs, "DAMPER").sec
  THEN At(secs, "DAMPER").kv ELSE SectionOrEmpty(secs, "SUSPENSION")

\* applyGenericMapping(setup, rawSetup)
applyGenericMapping(setup, rawSetup) ==
  LET secs == rawSetup.sections
      tire == SectionOrEmpty(secs, "TIRE")
      susp == SectionOrEmpty(secs, "SUSPENSION")
      damp == DamperSection(secs)
      aero == SectionOrEmpty(secs, "AERO")
      brake == SectionOrEmpty(secs, "BRAKE")
      diff == SectionOrEmpty(secs, "DIFFERENTIAL")
      gearRatios == GearRatios(SectionOrEmpty(secs, "GEARS"), 1)
      fixed == Props(<<
        <<<<"tirePressures", "frontLeft">>, Probe(tire, "LEFT_FRONT", "PRESSURE_LF")>>,
        <<<<"tirePressures", "frontRight">>, Probe(tire, "RIGHT_FRONT", "PRESSURE_RF")>>,
        <<<<"tirePressures", "rearLeft">>, Probe(tire, "LEFT_REAR", "PRESSURE_LR")>>,
        <<<<"tirePressures", "rearRight">>, Probe(tire, "RIGHT_REAR", "PRESSURE_RR")>>,
        <<<<"suspension", "front", "springRate">>, Probe(susp, "SPRING_RATE_LF", "FRONT_SPRING_RATE")>>,
        <<<<"suspension", "front", "rideHeight">>, Probe(susp, "RIDE_HEIGHT_LF", "FRONT_RIDE_HEIGHT")>>,
        <<<<"suspension", "front", "camber">>, Probe(susp, "CAMBER_LF", "FRONT_CAMBER")>>,
        <<<<"suspension", "front", "toe">>, Probe(susp, "TOE_IN_LF", "FRONT_TOE")>>,
        <<<<"suspension", "front", "antiRollBar">>, Probe(susp, "FRONT_ANTI_ROLL_BAR", "ARB_FRONT")>>,
        <<<<"suspension", "rear", "springRate">>, Probe(susp, "SPRING_RATE_LR", "REAR_SPRING_RATE")>>,
        <<<<"suspension", "rear", "rideHeight">>, Probe(susp, "RIDE_HEIGHT_LR", "REAR_RIDE_HEIGHT")>>,
        <<<<"suspension", "rear", "camber">>, Probe(susp, "CAMBER_LR", "REAR_CAMBER")>>,
        <<<<"suspension", "rear", "toe">>, Probe(susp, "TOE_IN_LR", "REAR_TOE")>>,
        <<<<"suspension", "rear", "antiRollBar">>, Probe(susp, "REAR_ANTI_ROLL_BAR", "ARB_REAR")>>,
        <<<<"dampers", "front", "bump">>, Probe(damp, "BUMP_LF", "FRONT_BUMP")>>,
        <<<<"dampers", "front", "rebound">>, Probe(damp, "REBOUND_LF", "FRONT_REBOUND")>>,
        <<<<"dampers", "rear", "bump">>, Probe(damp, "BUMP_LR", "REAR_BUMP")>>,
        <<<<"dampers", "rear", "rebound">>, Probe(damp, "REBOUND_LR", "REAR_REBOUND")>>,
        <<<<"aero", "frontWing">>, Probe(aero, "FRONT_WING", "WING_FRONT")>>,
        <<<<"aero", "rearWing">>, Probe(aero, "REAR_WING", "WING_REAR")>>,
        <<<<"brakeBias">>, ProbeOr(brake, "BIAS", "BRAKE_BIAS", 50)>>,
        <<<<"additionalSettings">>, Obj>>
      >>)
      differential == IF Len(diff) > 0
        THEN Props(<<
          <<<<"differential">>, Obj>>,
          <<<<"differential", "preload">>, ProbeOr(diff, "PRELOAD", "DIFF_PRELOAD", 0)>>,
          <<<<"differential", "powerRamp">>, ProbeOr(diff, "POWER_RAMP", "DIFF_POWER", 0)>>,
          <<<<"differential", "coastRamp">>, ProbeOr(diff, "COAST_RAMP", "DIFF_COAST", 0)>>
        >>)
        ELSE <<>>
      gears == IF Len(gearRatios) > 0 THEN Props(<<<<<<"gearRatios">>, Obj>>>>) ELSE <<>>
  IN [p |-> gears @@ differential @@ fixed @@ setup.p,
      gears |-> gearRatios,
      extra |-> SelectSeq(secs, LAMBDA en : en.k \notin ProcessedSections)]

\* convertToStructured(rawSetup)
convertToStructured(map, rawSetup, now) ==
  IF IsRegistered(map, rawSetup.header.carIdentifier)
  THEN applyCarMapping(InitialSetup(rawSetup, now), rawSetup,
                       MappingFor(map, rawSetup.header.carIdentifier))
  ELSE applyGenericMapping(InitialSetup(rawSetup, now), rawSetup)

\* parseString(content)
parseString(map, content, now) == convertToStructured(map, parseIniString(content, now), now)

\* whether parseString(content) throws, for each way the package can be
\* built: as strict code, or not.  applyGenericMapping assigns the fields
\* itself and never throws.
parseStringThrows(map, content, now) ==
  LET rawSetup == parseIniString(content, now)
      Throws(strict) == applyCarMappingThrows(InitialSetup(rawSetup, now), rawSetup,
                          MappingFor(map, rawSetup.header.carIdentifier), strict)
  IN IF ~IsRegistered(map, rawSetup.header.carIdentifier) THEN {FALSE}
     ELSE IF ~Throws(TRUE) THEN {FALSE}
     ELSE {TRUE, Throws(FALSE)}

\* rawSetup[section][key] = value, on a section that exists
PutIn(rawSetup, section, key, value) ==
  Put(rawSetup, section, Section(Put(At(rawSetup, section).kv, key, value)))

\* a variant of the reverse loop body that writes a field the setup lacks
ReverseEntryAlways(setup, rawSetup, mapping, en) ==
  LET value == getNestedProperty(setup, en.target)
      rawValue == IF Has(mapping.valueTransformations, en.target)
                  THEN ToRaw(At(mapping.valueTransformations, en.target), value)
                  ELSE value
      made == IF Has(rawSetup, en.section) /\ Truthy(At(rawSetup, en.section).val)
              THEN rawSetup ELSE Put(rawSetup, en.section, Section(<<>>))
  IN IF ~At(made, en.section).sec THEN made
     ELSE PutIn(made, en.section, en.source, rawValue)

\* the body of applyCarMappingReverse's inner loop for one entry
ReverseEntry(setup, rawSetup, mapping, en) ==
  LET value == getNestedProperty(setup, en.target)
      rawValue == IF Has(mapping.valueTransformations, en.target)
                  THEN ToRaw(At(mapping.valueTransformations, en.target), value)
                  ELSE value
      \* if (!rawSetup[sectionName]) rawSetup[sectionName] = {}
      made == IF Has(rawSetup, en.section) /\ Truthy(At(rawSetup, en.section).val)
              THEN rawSetup ELSE Put(rawSetup, en.section, Section(<<>>))
  IN IF value.t = "undefined" \/ ~At(made, en.section).sec THEN made
     ELSE PutIn(made, en.section, en.source, rawValue)

\* the loops of applyCarMappingReverse, from entry i on
RECURSIVE ReverseEntries(_, _, _, _, _)
ReverseEntries(setup, rawSetup, mapping, entries, i) ==
  IF i > Len(entries) THEN rawSetup
  ELSE CHOOSE out \in {ReverseEntries(setup, r, mapping, entries, j) :
                         r \in {ReverseEntry(setup, rawSetup, mapping, entries[i])}, j \in {i + 1}} : TRUE

\* a variant of applyCarMappingReverse that also writes the gear ratios
applyCarMappingReverseWithGears(setup, rawSetup, mapping) ==
  LET out == ReverseEntries(setup, rawSetup, mapping, MappingEntries(mapping.fieldMappings), 1)
  IN IF setup.gears = <<>> THEN out
     ELSE Put(out, "GEARS", Section([i \in 1..Len(setup.gears) |->
                                       [k |-> GearKey(i), v |-> setup.gears[i]]]))

\* applyCarMappingReverse(setup, rawSetup, mapping)
applyCarMappingReverse(setup, rawSetup, mapping) ==
  ReverseEntries(setup, rawSetup, mapping, MappingEntries(mapping.fieldMappings), 1)

\* rawSetup.GEARS[`GEAR_${i + 1}`] = setup.gearRatios[i]
GearSection(gearRatios) ==
  [i \in 1..Len(gearRatios) |-> [k |-> GearKey(i), v |-> gearRatios[i]]]

\* rawSetup[sectionName] = setup.additionalSettings[sectionName], for each
RECURSIVE PutAll(_, _)
PutAll(rawSetup, extra) ==
  IF extra = <<>> THEN rawSetup
  ELSE PutAll(Put(rawSetup, Head(extra).k, Head(extra).v), Tail(extra))

\* applyGenericMappingReverse(setup, rawSetup)
applyGenericMappingReverse(setup, rawSetup) ==
  LET G(path) == getNestedProperty(setup, path)
      tire == <<
        [k |-> "LEFT_FRONT", v |-> G(<<"tirePressures", "frontLeft">>)],
        [k |-> "RIGHT_FRONT", v |-> G(<<"tirePressures", "frontRight">>)],
        [k |-> "LEFT_REAR", v |-> G(<<"tirePressures", "rearLeft">>)],
        [k |-> "RIGHT_REAR", v |-> G(<<"tirePressures", "rearRight">>)]>>
      suspension == <<
        [k |-> "SPRING_RATE_LF", v |-> G(<<"suspension", "front", "springRate">>)],
        [k |-> "RIDE_HEIGHT_LF", v |-> G(<<"suspension", "front", "rideHeight">>)],
        [k |-> "CAMBER_LF", v |-> G(<<"suspension", "front", "camber">>)],
        [k |-> "TOE_IN_LF", v |-> G(<<"suspension", "front", "toe">>)],
        [k |-> "FRONT_ANTI_ROLL_BAR", v |-> G(<<"suspension", "front", "antiRollBar">>)],
        [k |-> "SPRING_RATE_LR", v |-> G(<<"suspension", "rear", "springRate">>)],
        [k |-> "RIDE_HEIGHT_LR", v |-> G(<<"suspension", "rear", "rideHeight">>)],
        [k |-> "CAMBER_LR", v |-> G(<<"suspension", "rear", "camber">>)],
        [k |-> "TOE_IN_LR", v |-> G(<<"suspension", "rear", "toe">>)],
        [k |-> "REAR_ANTI_ROLL_BAR", v |-> G(<<"suspension", "rear", "antiRollBar">>)],
        [k |-> "BUMP_LF", v |-> G(<<"dampers", "front", "bump">>)],
        [k |-> "REBOUND_LF", v |-> G(<<"dampers", "front", "rebound">>)],
        [k |-> "BUMP_LR", v |-> G(<<"dampers", "rear", "bump">>)],
        [k |-> "REBOUND_LR", v |-> G(<<"dampers", "rear", "rebound">>)]>>
      aero ==
        (IF G(<<"aero", "frontWing">>).t # "undefined"
         THEN <<[k |-> "FRONT_WING", v |-> G(<<"aero", "frontWing">>)]>> ELSE <<>>)
        \o (IF G(<<"aero", "rearWing">>).t # "undefined"
            THEN <<[k |-> "REAR_WING", v |-> G(<<"aero", "rearWing">>)]>> ELSE <<>>)
      brake == <<[k |-> "BIAS", v |-> G(<<"brakeBias">>)]>>
      differential ==
        <<[k |-> "PRELOAD", v |-> G(<<"differential", "preload">>)]>>
        \o (IF G(<<"differential", "powerRamp">>).t # "undefined"
            THEN <<[k |-> "POWER_RAMP", v |-> G(<<"differential", "powerRamp">>)]>> ELSE <<>>)
        \o (IF G(<<"differential", "coastRamp">>).t # "undefined"
            THEN <<[k |-> "COAST_RAMP", v |-> G(<<"differential", "coastRamp">>)]>> ELSE <<>>)
      r1 == Put(Put(Put(Put(rawSetup, "TIRE", Section(tire)),
                        "SUSPENSION", Section(suspension)),
                    "AERO", Section(aero)),
                "BRAKE", Section(brake))
      r2 == IF Truthy(G(<<"differential">>))
            THEN Put(r1, "DIFFERENTIAL", Section(differential)) ELSE r1
      r3 == IF Truthy(G(<<"gearRatios">>)) /\ Len(setup.gears) > 0
            THEN Put(r2, "GEARS", Section(GearSection(setup.gears))) ELSE r2
  IN IF Truthy(G(<<"additionalSettings">>)) THEN PutAll(r3, setup.extra) ELSE r3

\* a variant of convertToSto that never looks the carId up
convertToStoGenericOnly(map, setup, now) ==
  LET G(path) == getNestedProperty(setup, path)
  IN IniStringify(applyGenericMappingReverse(setup, <<
       [k |-> "VERSION", v |-> Scalar(OrElse(G(<<"metadata", "version">>), Str(<<"1", ".", "0">>)))],
       [k |-> "CAR", v |-> Scalar(G(<<"carId">>))],
       [k |-> "TRACK", v |-> Scalar(G(<<"trackId">>))],
       [k |-> "TIMESTAMP", v |-> Scalar(OrElse(G(<<"metadata", "modified">>), Word(now)))],
       [k |-> "SETUPS", v |-> Section(<<[k |-> "ACTIVE", v |-> G(<<"name">>)]>>)]>>))

\* the rawSetup that convertToSto gives to ini.stringify
RawTable(map, setup, now) ==
  LET G(path) == getNestedProperty(setup, path)
      rawSetup == <<
        [k |-> "VERSION", v |-> Scalar(OrElse(G(<<"metadata", "version">>), Str(<<"1", ".", "0">>)))],
        [k |-> "CAR", v |-> Scalar(G(<<"carId">>))],
        [k |-> "TRACK", v |-> Scalar(G(<<"trackId">>))],
        [k |-> "TIMESTAMP", v |-> Scalar(OrElse(G(<<"metadata", "modified">>), Word(now)))],
        [k |-> "SETUPS", v |-> Section(<<[k |-> "ACTIVE", v |-> G(<<"name">>)]>>)]>>
  IN IF IsRegistered(map, G(<<"carId">>))
     THEN applyCarMappingReverse(setup, rawSetup, MappingFor(map, G(<<"carId">>)))
     ELSE applyGenericMappingReverse(setup, rawSetup)

\* convertToSto(setup); now is what new Date().toISOString() returns
convertToSto(map, setup, now) == IniStringify(RawTable(map, setup, now))

(***************************************************************************)
(* The callers' inputs: the mappings they register, the setups they build  *)
(* and the texts they read from .sto files.                                *)
(***************************************************************************)
NoMapping == [carId |-> "", fieldMappings |-> <<>>, valueTransformations |-> <<>>]

\* a second definition for the Ferrari's carId: other key names, a
\* transformation on the front spring rate, and a transformation for a
\* field path ('aero.frontWing') that no section of fieldMappings targets
ferrariRedefined ==
  [carId |-> "ferrari_488_gt3",
   fieldMappings |-> <<
     [section |-> "TYRES", fields |-> <<
        Field(<<"tirePressures", "frontLeft">>, "FL"),
        Field(<<"tirePressures", "frontRight">>, "FR"),
        Field(<<"tirePressures", "rearLeft">>, "RL"),
        Field(<<"tirePressures", "rearRight">>, "RR")>>],
     [section |-> "SUSPENSION", fields |-> <<
        Field(<<"suspension", "front", "springRate">>, "SPRING_F"),
        Field(<<"suspension", "front", "camber">>, "CAMBER_F")>>]>>,
   valueTransformations |-> <<
     [k |-> <<"suspension", "front", "springRate">>, v |-> "porscheSpringRate"],
     [k |-> <<"aero", "frontWing">>, v |-> "ferrariCamber"]>>]

Dialects == {ferrari488GT3Mapping, porsche911GT3RMapping, ferrariRedefined}

\* a definition whose target fields run through values that are no
\* objects: brakeBias is a number of the fresh record, name a string of
\* it, and notes is written before notes.author; electronics.tc.level
\* has two parts that no record has
conflictingMapping ==
  [carId |-> "mclaren_720s_gt3",
   fieldMappings |-> <<
     [section |-> "BRAKE", fields |-> <<
        Field(<<"brakeBias", "x">>, "BIAS_X"),
        Field(<<"electronics", "tc", "level">>, "TC"),
        Field(<<"name", "first", "second">>, "LABEL"),
        Field(<<"notes">>, "NOTES"),
        Field(<<"notes", "author">>, "AUTHOR")>>]>>,
   valueTransformations |-> <<>>]

\* new SetupParser(), createDefaultParser(), and an array that names one carId twice
ConstructorArrays ==
  {<<>>,
   <<ferrari488GT3Mapping, porsche911GT3RMapping>>,
   <<ferrari488GT3Mapping, ferrariRedefined>>}

CarIds == {"ferrari_488_gt3", "porsche_911_gt3r", "mclaren_720s_gt3"}
Clock == {"2026-03-01T10:00:00.000Z", "2026-03-02T10:00:00.000Z"}

\* a setup as typed by ParsedSetup; n gives its numbers by field path,
\* opt says which optional blocks it has
SetupOf(carId, n, opt) ==
  [p |-> (IF "differential" \in opt
          THEN Props(<<
            <<<<"differential">>, Obj>>,
            <<<<"differential", "preload">>, n.preload>>,
            <<<<"differential", "powerRamp">>, n.powerRamp>>,
            <<<<"differential", "coastRamp">>, n.coastRamp>>>>)
          ELSE <<>>)
         @@ (IF "rearWing" \in opt THEN Props(<<<<<<"aero", "rearWing">>, n.rearWing>>>>) ELSE <<>>)
         @@ (IF "frontWing" \in opt THEN Props(<<<<<<"aero", "frontWing">>, n.frontWing>>>>) ELSE <<>>)
         @@ (IF "gearRatios" \in opt THEN Props(<<<<<<"gearRatios">>, Obj>>>>) ELSE <<>>)
         @@ (IF "additionalSettings" \in opt THEN Props(<<<<<<"additionalSettings">>, Obj>>>>) ELSE <<>>)
         @@ Props(<<
     <<<<"carId">>, Word(carId)>>,
     <<<<"trackId">>, Word("spa")>>,
     <<<<"name">>, Word("Race")>>,
     <<<<"suspension">>, Obj>>,
     <<<<"suspension", "front">>, Obj>>,
     <<<<"suspension", "front", "springRate">>, n.springF>>,
     <<<<"suspension", "front", "rideHeight">>, n.rideF>>,
     <<<<"suspension", "front", "camber">>, n.camberF>>,
     <<<<"suspension", "front", "toe">>, n.toeF>>,
     <<<<"suspension", "front", "antiRollBar">>, n.arbF>>,
     <<<<"suspension", "rear">>, Obj>>,
     <<<<"suspension", "rear", "springRate">>, n.springR>>,
     <<<<"suspension", "rear", "rideHeight">>, n.rideR>>,
     <<<<"suspension", "rear", "camber">>, n.camberR>>,
     <<<<"suspension", "rear", "toe">>, n.toeR>>,
     <<<<"suspension", "rear", "antiRollBar">>, n.arbR>>,
     <<<<"dampers">>, Obj>>,
     <<<<"dampers", "front">>, Obj>>,
     <<<<"dampers", "front", "bump">>, n.bumpF>>,
     <<<<"dampers", "front", "rebound">>, n.reboundF>>,
     <<<<"dampers", "rear">>, Obj>>,
     <<<<"dampers", "rear", "bump">>, n.bumpR>>,
     <<<<"dampers", "rear", "rebound">>, n.reboundR>>,
     <<<<"tirePressures">>, Obj>>,
     <<<<"tirePressures", "frontLeft">>, n.tireFL>>,
     <<<<"tirePressures", "frontRight">>, n.tireFR>>,
     <<<<"tirePressures", "rearLeft">>, n.tireRL>>,
     <<<<"tirePressures", "rearRight">>, n.tireRR>>,
     <<<<"aero">>, Obj>>,
     <<<<"brakeBias">>, n.brakeBias>>,
     <<<<"metadata">>, Obj>>,
     <<<<"metadata", "created">>, Word("2026-02-01T08:00:00.000Z")>>,
     <<<<"metadata", "modified">>, Word("2026-02-02T08:00:00.000Z")>>,
     <<<<"metadata", "version">>, Str(<<"2", ".", "1">>)>>>>),
   gears |-> IF "gearRatios" \in opt THEN n.gears ELSE <<>>,
   extra |-> IF "additionalSettings" \in opt
             THEN <<[k |-> "ELECTRONICS", v |-> Section(<<[k |-> "TC", v |-> Int0(4)],
                                                           [k |-> "MAP", v |-> Word("wet")]>>)]>>
             ELSE <<>>]

\* an ordinary setup: spring rates in N/m, negative and fractional angles
TypicalNumbers ==
  [springF |-> Int0(120500), springR |-> Int0(100000), rideF |-> Int0(55), rideR |-> Int0(62),
   camberF |-> Num(-35, 1, 0), camberR |-> Int0(-2), toeF |-> Int0(0), toeR |-> Num(1, 1, 0),
   arbF |-> Int0(5), arbR |-> Int0(3), bumpF |-> Int0(8), reboundF |-> Int0(6),
   bumpR |-> Int0(7), reboundR |-> Int0(9), tireFL |-> Int0(172), tireFR |-> Int0(173),
   tireRL |-> Int0(165), tireRR |-> Int0(166), brakeBias |-> Num(565, 1, 0),
   rearWing |-> Int0(7), frontWing |-> Int0(2),
   preload |-> Int0(50), powerRamp |-> Int0(40), coastRamp |-> Int0(30),
   gears |-> <<Num(31, 1, 0), Num(21, 1, 0), Num(16, 1, 0)>>]

\* zero, negative and large values, and spring rates that are no multiple of 1000
EdgeNumbers ==
  [springF |-> Int0(1001), springR |-> Int0(4001), rideF |-> Int0(0), rideR |-> Int0(-4),
   camberF |-> Int0(0), camberR |-> Int0(3), toeF |-> Num(-5, 2, 0), toeR |-> Int0(0),
   arbF |-> Int0(0), arbR |-> Int0(1000000), bumpF |-> Int0(0), reboundF |-> Int0(1),
   bumpR |-> Int0(2), reboundR |-> Int0(0), tireFL |-> Int0(0), tireFR |-> Int0(250000),
   tireRL |-> Int0(-1), tireRR |-> Num(1655, 1, 0), brakeBias |-> Int0(0),
   rearWing |-> Int0(0), frontWing |-> Int0(0),
   preload |-> Int0(0), powerRamp |-> Int0(60), coastRamp |-> Int0(0),
   gears |-> <<Int0(3)>>]

\* the typical numbers with a gearbox of nine gears
NineGears ==
  [TypicalNumbers EXCEPT !.gears =
     <<Num(31, 1, 0), Num(21, 1, 0), Num(16, 1, 0), Num(13, 1, 0), Num(11, 1, 0),
       Int0(1), Num(9, 1, 0), Num(8, 1, 0), Num(7, 1, 0)>>]

AllBlocks == {"differential", "rearWing", "frontWing", "gearRatios", "additionalSettings"}

\* a setup without the optional property named top
Without(setup, top) ==
  [setup EXCEPT !.p = [x \in {y \in DOMAIN setup.p : y[1] # top} |-> setup.p[x]]]

SampleSetups ==
  {SetupOf(id, TypicalNumbers, {"differential", "rearWing"}) : id \in CarIds}
  \cup {SetupOf(id, EdgeNumbers, AllBlocks) : id \in {"porsche_911_gt3r", "mclaren_720s_gt3"}}
  \cup {SetupOf("mclaren_720s_gt3", TypicalNumbers, {})}
  \cup {Without(SetupOf("mclaren_720s_gt3", TypicalNumbers, {"rearWing"}), "metadata")}
  \cup {SetupOf("mclaren_720s_gt3", NineGears, {"gearRatios"})}

N(n) == NumToAtoms(Int0(n))

\* the spec's end-to-end example: four tire pressures under the Ferrari's id
TireText ==
  <<PairLine("CAR", <<"ferrari_488_gt3">>),
    HeaderLine("TIRE"),
    PairLine("PRESSURE_LF", N(172)), PairLine("PRESSURE_RF", N(172)),
    PairLine("PRESSURE_LR", N(165)), PairLine("PRESSURE_RR", N(165))>>

\* cambers (3.0 and 2.5) and spring rates under a given id, in the key
\* names of both built-in mappings
CamberText(carId) ==
  <<PairLine("VERSION", <<"2">>), PairLine("CAR", <<carId>>), PairLine("TRACK", <<"monza">>),
    CommentLine,
    HeaderLine("SETUPS"), PairLine("ACTIVE", <<"Quali">>),
    BlankLine,
    HeaderLine("SUSPENSION"),
    PairLine("CAMBER_LF", <<"3", ".", "0">>), PairLine("CAMBER_LR", <<"2", ".", "5">>),
    PairLine("FRONT_CAMBER", <<"3", ".", "0">>), PairLine("REAR_CAMBER", <<"-", "1">>),
    PairLine("SPRING_RATE_LF", N(120000)), PairLine("FRONT_SPRING_RATE", N(120)),
    PairLine("REAR_SPRING_RATE", <<"9", "5", ".", "5">>)>>

\* gear ratios with a hole at GEAR_3, under an id nothing is registered for
GearText ==
  <<PairLine("CAR", <<"mclaren_720s_gt3">>),
    PairLine("TIMESTAMP", <<"2026-02-03T09:00:00.000Z">>),
    HeaderLine("GEARS"),
    PairLine("GEAR_1", <<"3", ".", "1">>), PairLine("GEAR_2", <<"2", ".", "1">>),
    PairLine("GEAR_4", <<"1", ".", "2">>),
    HeaderLine("BRAKE"), PairLine("BIAS", N(54))>>

\* texts that do not tokenize into section / key / value lines: a section
\* header without its "]", and a key outside any section that is no header key
OpenHeader(n) == "[" \o n
UnterminatedText(carId) ==
  <<PairLine("CAR", <<carId>>),
    KeyLine(OpenHeader("TIRE")),
    PairLine("PRESSURE_LF", N(172)), PairLine("LEFT_FRONT", N(172))>>
StrayKeyText(carId) ==
  <<PairLine("CAR", <<carId>>),
    PairLine("PRESSURE_LF", N(172)),
    HeaderLine("TIRE"), PairLine("PRESSURE_RF", N(171)), PairLine("RIGHT_FRONT", N(171))>>

\* sections no field is read from (one of them without keys) among
\* sections the generic mapping reads, under an id nothing is registered for
ExtraText ==
  <<PairLine("CAR", <<"mclaren_720s_gt3">>),
    PairLine("TIMESTAMP", <<"2026-02-03T09:00:00.000Z">>),
    HeaderLine("ELECTRONICS"),
    PairLine("TC", N(4)), PairLine("MAP", <<"wet">>), PairLine("ABS", <<"true">>),
    HeaderLine("NOTES"),
    HeaderLine("TIRE"), PairLine("LEFT_FRONT", N(172)),
    HeaderLine("DAMPER"), PairLine("BUMP_LF", N(8)),
    HeaderLine("FUEL"), PairLine("LEVEL", <<"4", "5", ".", "5">>)>>

SampleTexts ==
  {TireText, GearText, ExtraText,
   UnterminatedText("mclaren_720s_gt3"), StrayKeyText("ferrari_488_gt3")}
  \cup {CamberText(id) : id \in CarIds}

(***************************************************************************)
(* The state: one SetupParser and what its callers hold                    *)
(***************************************************************************)
VARIABLES
  carMappings,   \* the parser's Map from carId to mapping
  hist,          \* the value the caller works on, as the chain of values that led to it
  last,          \* the last call on the parser, and the error it threw
  calc,          \* a caller applying one value transformation: fromRaw, then toRaw
  editor         \* the state of the renderer's SetupEditor component

vars == <<carMappings, hist, last, calc, editor>>

NoSetup == [p |-> <<>>, gears |-> <<>>, extra |-> <<>>]

(***************************************************************************)
(* The SetupEditor component (renderer): its props and its four pieces of  *)
(* React state.  A handler runs to its end on the state of the latest      *)
(* render: React renders between two events of the user.                   *)
(***************************************************************************)
\* the last event called no onSave; it called onSave with a setup, and the
\* validationErrors and the changed parameters of that moment
NotSaved == [called |-> FALSE, setup |-> NoSetup, errors |-> {}, changed |-> {}]

\* the component before a setup is loaded: setupData and editedSetup are
\* null; changed is the set of parameters changed since the last load or
\* reset, event the last thing that happened to the component
Unmounted ==
  [setupData |-> NoSetup, editedSetup |-> NoSetup, validationErrors |-> {},
   isModified |-> FALSE, changed |-> {}, onSave |-> NotSaved, event |-> "mount"]

\* setupValidationRules: min and max by parameter path
Rule(min, max) == [min |-> min, max |-> max]
setupValidationRules ==
  (<<"suspension", "front", "springRate">> :> Rule(Int0(50000), Int0(250000)))
  @@ (<<"suspension", "rear", "springRate">> :> Rule(Int0(50000), Int0(250000)))
  @@ (<<"suspension", "front", "rideHeight">> :> Rule(Int0(40), Int0(120)))
  @@ (<<"suspension", "rear", "rideHeight">> :> Rule(Int0(40), Int0(120)))
  @@ (<<"suspension", "front", "camber">> :> Rule(Int0(-5), Int0(0)))
  @@ (<<"suspension", "rear", "camber">> :> Rule(Int0(-5), Int0(0)))
  @@ (<<"suspension", "front", "toe">> :> Rule(Num(-5, 1, 0), Num(5, 1, 0)))
  @@ (<<"suspension", "rear", "toe">> :> Rule(Num(-5, 1, 0), Num(5, 1, 0)))
  @@ (<<"suspension", "front", "antiRollBar">> :> Rule(Int0(0), Int0(50)))
  @@ (<<"suspension", "rear", "antiRollBar">> :> Rule(Int0(0), Int0(50)))
  @@ (<<"dampers", "front", "bump">> :> Rule(Int0(0), Int0(20)))
  @@ (<<"dampers", "front", "rebound">> :> Rule(Int0(0), Int0(20)))
  @@ (<<"dampers", "rear", "bump">> :> Rule(Int0(0), Int0(20)))
  @@ (<<"dampers", "rear", "rebound">> :> Rule(Int0(0), Int0(20)))
  @@ (<<"tirePressures", "frontLeft">> :> Rule(Int0(120), Int0(200)))
  @@ (<<"tirePressures", "frontRight">> :> Rule(Int0(120), Int0(200)))
  @@ (<<"tirePressures", "rearLeft">> :> Rule(Int0(120), Int0(200)))
  @@ (<<"tirePressures", "rearRight">> :> Rule(Int0(120), Int0(200)))
  @@ (<<"aero", "frontWing">> :> Rule(Int0(0), Int0(10)))
  @@ (<<"aero", "rearWing">> :> Rule(Int0(0), Int0(20)))
  @@ (<<"brakeBias">> :> Rule(Int0(45), Int0(65)))
  @@ (<<"differential", "preload">> :> Rule(Int0(0), Int0(200)))
  @@ (<<"differential", "powerRamp">> :> Rule(Int0(0), Int0(100)))
  @@ (<<"differential", "coastRamp">> :> Rule(Int0(0), Int0(100)))

\* a < b on two decimal numbers
NumLess(a, b) == a.m * Pow10(b.e) < b.m * Pow10(a.e)

\* JSON.parse(JSON.stringify(setup)): a property that holds undefined is
\* left out, NaN becomes null
JsonValue(v) == IF v.t = "nan" THEN Null ELSE v
JsonCopy(setup) ==
  [p |-> [x \in {y \in DOMAIN setup.p : setup.p[y].t # "undefined"} |-> JsonValue(setup.p[x])],
   gears |-> [i \in 1..Len(setup.gears) |-> JsonValue(setup.gears[i])],
   extra |-> setup.extra]

\* the useEffect on [setupData]: the parent passes a setup
Load(setup) ==
  /\ editor' = [editor EXCEPT !.setupData = setup,
                              !.editedSetup = JsonCopy(setup),
                              !.isModified = FALSE,
                              !.validationErrors = {},
                              !.changed = {},
                              !.onSave = NotSaved,
                              !.event = "load"]
  /\ UNCHANGED <<carMappings, hist, last, calc>>

\* a variant of the validation that, for a value within its range,
\* clears the errors of all parameters
ValidatedClearingAll(errors, path, value) ==
  IF path \notin DOMAIN setupValidationRules THEN errors
  ELSE IF NumLess(value, setupValidationRules[path].min)
          \/ NumLess(setupValidationRules[path].max, value)
       THEN errors \cup {path} ELSE {}

\* the validationErrors that handleParameterChange sets for a new value
Validated(errors, path, value) ==
  IF path \notin DOMAIN setupValidationRules THEN errors
  ELSE IF NumLess(value, setupValidationRules[path].min)
          \/ NumLess(setupValidationRules[path].max, value)
       THEN errors \cup {path} ELSE errors \ {path}

\* handleParameterChange(path, value); now is what new Date().toISOString() returns
HandleParameterChange(path, value, now) ==
  /\ editor.setupData # NoSetup /\ editor.editedSetup # NoSetup
  /\ LET set == [editor.editedSetup EXCEPT
                   !.p = With(Vivify(@, path, 1), path, value)]
         newSetup == IF <<"metadata">> \in DOMAIN set.p /\ Truthy(set.p[<<"metadata">>])
                     THEN [set EXCEPT !.p = With(@, <<"metadata", "modified">>, Word(now))]
                     ELSE [set EXCEPT !.p = With(With(With(@, <<"metadata">>, Obj),
                                                       <<"metadata", "created">>, Word(now)),
                                                  <<"metadata", "modified">>, Word(now))]
     IN editor' = [editor EXCEPT
                     !.validationErrors = Validated(@, path, value),
                     !.editedSetup = newSetup,
                     !.isModified = TRUE,
                     !.changed = @ \cup {path},
                     !.onSave = NotSaved,
                     !.event = "change"]
  /\ UNCHANGED <<carMappings, hist, last, calc>>

\* handleSave()
HandleSave ==
  /\ editor.setupData # NoSetup /\ editor.editedSetup # NoSetup
  /\ editor' = IF editor.validationErrors = {}
               THEN [editor EXCEPT
                       !.onSave = [called |-> TRUE, setup |-> editor.editedSetup,
                                   errors |-> editor.validationErrors,
                                   changed |-> editor.changed],
                       !.isModified = FALSE,
                       !.event = "save"]
               ELSE [editor EXCEPT !.onSave = NotSaved, !.event = "save"]
  /\ UNCHANGED <<carMappings, hist, last, calc>>

\* handleReset()
HandleReset ==
  /\ editor.setupData # NoSetup /\ editor.editedSetup # NoSetup
  /\ editor' = [editor EXCEPT !.editedSetup = JsonCopy(editor.setupData),
                              !.validationErrors = {},
                              !.isModified = FALSE,
                              !.changed = {},
                              !.onSave = NotSaved,
                              !.event = "reset"]
  /\ UNCHANGED <<carMappings, hist, last, calc>>

\* the parameters the user changes and the values typed or slid to: 44.9
\* is under the minimum of brakeBias and over the maximum of
\* aero.frontWing, 50 is a brake bias and 5 a front wing
EditedPaths == {<<"brakeBias">>, <<"aero", "frontWing">>}
EditedValues == {Num(449, 1, 0), Int0(50), Int0(5)}
EditorClock == {"2026-03-01T10:00:00.000Z"}

\* the setups the parent passes: sample setups, or the setup that onSave
\* has just given it (handleSetupChange)
LoadedSetups ==
  {SetupOf("ferrari_488_gt3", TypicalNumbers, {"differential", "rearWing"}),
   SetupOf("porsche_911_gt3r", EdgeNumbers, AllBlocks),
   Without(SetupOf("mclaren_720s_gt3", TypicalNumbers, {"rearWing"}), "metadata")}

EditorNext ==
  \/ \E setup \in LoadedSetups \cup (IF editor.onSave.called THEN {editor.onSave.setup} ELSE {}) :
       Load(setup)
  \/ \E path \in EditedPaths, value \in EditedValues, now \in EditorClock :
       HandleParameterChange(path, value, now)
  \/ HandleSave
  \/ HandleReset

\* a setup the caller built, a text the caller read
Given(setup) == [kind |-> "setup", setup |-> setup, text |-> <<>>, from |-> "caller", by |-> NoMapping]
Read(text) == [kind |-> "text", setup |-> NoSetup, text |-> text, from |-> "caller", by |-> NoMapping]
\* what parseString and convertToSto returned, and the mapping they selected
Parsed(setup, by) == [kind |-> "setup", setup |-> setup, text |-> <<>>, from |-> "parseString", by |-> by]
Written(text, by) == [kind |-> "text", setup |-> NoSetup, text |-> text, from |-> "convertToSto", by |-> by]

\* a call: arg the mappings it was given (the text, for a parseString
\* that threw), was the definition that the
\* Map held for a carId of arg before that carId was set again (NoMapping
\* when no carId was set twice); none of the calls throws on these inputs
Call(op, arg, was) == [op |-> op, arg |-> arg, was |-> was, error |-> "none"]

Idle == [stage |-> 0, tr |-> "", x |-> Int0(0), y |-> Int0(0), z |-> Int0(0)]

Selected(map, id) == IF IsRegistered(map, id) THEN map[id.s[1]] ELSE NoMapping

SetupInRange(setup) ==
  /\ \A x \in DOMAIN setup.p : setup.p[x].t # "range"
  /\ \A i \in 1..Len(setup.gears) : setup.gears[i].t # "range"
TextInRange(text) == \A i \in 1..Len(text) : text[i].val # <<"#range">>

\* the first element of the constructor's array whose carId comes again
FirstSetAgain(arr) ==
  LET again == {i \in 1..Len(arr) : \E j \in (i + 1)..Len(arr) : arr[j].carId = arr[i].carId}
  IN IF again = {} THEN NoMapping
     ELSE arr[CHOOSE i \in again : \A j \in again : i <= j]

Init ==
  \E arr \in ConstructorArrays :
    /\ carMappings = Construct(<<>>, arr)
    /\ hist = <<>>
    /\ last = Call("constructor", arr, FirstSetAgain(arr))
    /\ calc = Idle
    /\ editor = Unmounted

\* registerCarMapping(mapping)
RegisterCarMapping(mapping) ==
  /\ carMappings' = MapSet(carMappings, mapping)
  /\ last' = Call("registerCarMapping", <<mapping>>,
                   IF mapping.carId \in DOMAIN carMappings
                   THEN carMappings[mapping.carId] ELSE NoMapping)
  /\ UNCHANGED <<hist, calc, editor>>

\* a caller builds a setup, or reads the text of a file
NewSetup(setup) ==
  /\ hist = <<>>
  /\ hist' = <<Given(setup)>>
  /\ UNCHANGED <<carMappings, last, calc, editor>>

NewText(text) ==
  /\ hist = <<>>
  /\ hist' = <<Read(text)>>
  /\ UNCHANGED <<carMappings, last, calc, editor>>

\* a caller drops the value it holds
Discard ==
  /\ hist # <<>>
  /\ hist' = <<>>
  /\ UNCHANGED <<carMappings, last, calc, editor>>

\* a variant of parseString that keeps, in the Map, an empty mapping for a
\* CAR it found nothing registered for
ParseStringRemembering(now) ==
  /\ hist # <<>> /\ Len(hist) <= MaxChain
  /\ hist[Len(hist)].kind = "text"
  /\ \E setup \in {parseString(carMappings, hist[Len(hist)].text, now)} :
        /\ SetupInRange(setup)
        /\ hist' = Append(hist, Parsed(setup, Selected(carMappings, setup.p[<<"carId">>])))
        /\ carMappings' =
             IF IsRegistered(carMappings, setup.p[<<"carId">>]) \/ setup.p[<<"carId">>].s = <<>>
             THEN carMappings
             ELSE MapSet(carMappings, [NoMapping EXCEPT !.carId = setup.p[<<"carId">>].s[1]])
  /\ last' = Call("parseString", <<>>, NoMapping)
  /\ UNCHANGED <<calc, editor>>

\* parseString(content) on the text the caller holds: it returns a setup,
\* or a call of setNestedProperty throws and the caller gets no setup
ParseString(now) ==
  /\ hist # <<>> /\ Len(hist) <= MaxChain
  /\ hist[Len(hist)].kind = "text"
  /\ \E threw \in parseStringThrows(carMappings, hist[Len(hist)].text, now) :
        IF threw
        THEN /\ hist' = hist
             /\ last' = [Call("parseString", <<hist[Len(hist)].text>>, NoMapping)
                           EXCEPT !.error = "TypeError"]
        ELSE /\ \E setup \in {parseString(carMappings, hist[Len(hist)].text, now)} :
                  /\ SetupInRange(setup)
                  /\ hist' = Append(hist, Parsed(setup, Selected(carMappings, setup.p[<<"carId">>])))
             /\ last' = Call("parseString", <<>>, NoMapping)
  /\ UNCHANGED <<carMappings, calc, editor>>

\* convertToSto(setup) on the setup the caller holds
ConvertToSto(now) ==
  /\ hist # <<>> /\ Len(hist) <= MaxChain
  /\ hist[Len(hist)].kind = "setup"
  /\ \E text \in {convertToSto(carMappings, hist[Len(hist)].setup, now)} :
        /\ TextInRange(text)
        /\ hist' = Append(hist, Written(text, Selected(carMappings, hist[Len(hist)].setup.p[<<"carId">>])))
  /\ last' = Call("convertToSto", <<>>, NoMapping)
  /\ UNCHANGED <<carMappings, calc, editor>>

Next ==
  \/ \E mapping \in Dialects : RegisterCarMapping(mapping)
  \/ \E setup \in SampleSetups : NewSetup(setup)
  \/ \E text \in SampleTexts : NewText(text)
  \/ Discard
  \/ \E now \in Clock : ParseString(now)
  \/ \E now \in Clock : ConvertToSto(now)

Spec == Init /\ [][Next]_vars

\* the SetupEditor alone
EditorSpec == Init /\ [][EditorNext]_vars

(***************************************************************************)
(* The value transformations on their own: a caller takes a transformation *)
(* of a built-in mapping and a number, and applies fromRaw, then toRaw.    *)
(***************************************************************************)
BuiltInTransforms ==
  UNION {{m.valueTransformations[i].v : i \in 1..Len(m.valueTransformations)} :
           m \in {ferrari488GT3Mapping, porsche911GT3RMapping}}

\* the integers tried: a range around zero, and large magnitudes
SampleNumbers ==
  {Int0(n) : n \in (-MaxSample)..MaxSample}
  \cup {Int0(n) : n \in {1001, -4001, 99999, 250000, -250000, 1000000, -2000000}}

TransformInit ==
  /\ carMappings = Construct(<<>>, <<ferrari488GT3Mapping, porsche911GT3RMapping>>)
  /\ hist = <<>>
  /\ last = Call("constructor", <<ferrari488GT3Mapping, porsche911GT3RMapping>>, NoMapping)
  /\ calc = Idle
  /\ editor = Unmounted

Take(tr, x) ==
  /\ calc.stage = 0
  /\ calc' = [Idle EXCEPT !.stage = 1, !.tr = tr, !.x = x]
  /\ UNCHANGED <<carMappings, hist, last, editor>>

ApplyFromRaw ==
  /\ calc.stage = 1
  /\ FromRaw(calc.tr, calc.x).t # "range"
  /\ calc' = [calc EXCEPT !.stage = 2, !.y = FromRaw(calc.tr, calc.x)]
  /\ UNCHANGED <<carMappings, hist, last, editor>>

ApplyToRaw ==
  /\ calc.stage = 2
  /\ calc' = [calc EXCEPT !.stage = 3, !.z = ToRaw(calc.tr, calc.y)]
  /\ UNCHANGED <<carMappings, hist, last, editor>>

Done ==
  /\ calc.stage = 3
  /\ calc' = Idle
  /\ UNCHANGED <<carMappings, hist, last, editor>>

TransformNext ==
  \/ \E tr \in BuiltInTransforms, x \in SampleNumbers : Take(tr, x)
  \/ ApplyFromRaw
  \/ ApplyToRaw
  \/ Done

TransformSpec == TransformInit /\ [][TransformNext]_vars

(***************************************************************************)
(* One decode of a short text: a caller reads a text that has one section  *)
(* with up to three keys (the two names the generic mapping reads for one  *)
(* field, and a key no mapping reads) and gives it to parseString.         *)
(***************************************************************************)
\* [section, a, b]: a section, and two keys the generic mapping reads there
\* (the two names of one field, or two of the gear keys)
ProbedKeys ==
  {<<"TIRE", "LEFT_FRONT", "PRESSURE_LF">>,
   <<"SUSPENSION", "CAMBER_LF", "FRONT_CAMBER">>,
   <<"SUSPENSION", "BUMP_LF", "FRONT_BUMP">>,
   <<"DAMPER", "BUMP_LF", "FRONT_BUMP">>,
   <<"AERO", "REAR_WING", "WING_REAR">>,
   <<"BRAKE", "BIAS", "BRAKE_BIAS">>,
   <<"DIFFERENTIAL", "PRELOAD", "DIFF_PRELOAD">>,
   <<"GEARS", "GEAR_2", "GEAR_3">>}

\* what a file may hold for a key: no line, a number, nothing after the
\* "=", the words false and true, a zero, a word that is no number, a
\* number with a word after it
RawChoices == {"absent", "number", "empty", "false", "true", "zero", "word", "prefix"}
FewChoices == {"absent", "number", "word"}

\* the line of key k for choice c; the number is n
ChoiceLines(k, c, n) ==
  CASE c = "absent" -> <<>>
    [] c = "number" -> <<PairLine(k, n)>>
    [] c = "empty" -> <<PairLine(k, <<>>)>>
    [] c = "false" -> <<PairLine(k, <<"false">>)>>
    [] c = "true" -> <<PairLine(k, <<"true">>)>>
    [] c = "zero" -> <<PairLine(k, N(0))>>
    [] c = "prefix" -> <<PairLine(k, N(12) \o <<"abc">>)>>
    [] OTHER -> <<PairLine(k, <<"abc">>)>>

\* 172 under the first key, 16.5 under the second
ProbeText(carId, pk, ca, cb, other) ==
  <<PairLine("CAR", <<carId>>), PairLine("TIMESTAMP", <<"2026-02-03T09:00:00.000Z">>),
    HeaderLine(pk[1])>>
  \o ChoiceLines(pk[2], ca, N(172))
  \o ChoiceLines(pk[3], cb, <<"1", "6", ".", "5">>)
  \o (IF other THEN <<PairLine("NOTE", <<"x">>)>> ELSE <<>>)

ProbeTexts ==
  {ProbeText(id, pk, ca, cb, other) :
     id \in CarIds, pk \in ProbedKeys, ca \in RawChoices, cb \in FewChoices, other \in BOOLEAN}

\* where a text has the line of a header key: before the first section,
\* in the SETUPS section, in the TIRE section, or nowhere
Places == {"top", "setups", "tire", "none"}

\* a text with VERSION, CAR, TRACK and ACTIVE at the places at; the lines
\* before the first section in the order VERSION, CAR, TRACK, ACTIVE or
\* in the reverse order
HeaderText(at, reversed) ==
  LET lines == <<[n |-> "VERSION", l |-> PairLine("VERSION", <<"2">>)],
                 [n |-> "CAR", l |-> PairLine("CAR", <<"ferrari_488_gt3">>)],
                 [n |-> "TRACK", l |-> PairLine("TRACK", <<"monza">>)],
                 [n |-> "ACTIVE", l |-> PairLine("ACTIVE", <<"Quali">>)]>>
      In(place) == LET sel == SelectSeq(lines, LAMBDA x : at[x.n] = place)
                   IN [j \in 1..Len(sel) |-> sel[j].l]
      top == IF reversed THEN [j \in 1..Len(In("top")) |-> In("top")[Len(In("top")) + 1 - j]]
             ELSE In("top")
  IN top \o <<HeaderLine("SETUPS")>> \o In("setups")
         \o <<HeaderLine("TIRE"), PairLine("LEFT_FRONT", N(172))>> \o In("tire")

HeaderTexts ==
  {HeaderText(at, reversed) :
     at \in [{"VERSION", "CAR", "TRACK", "ACTIVE"} -> Places \ {"setups"}]
          \cup [{"VERSION", "CAR", "TRACK", "ACTIVE"} -> {"top", "setups"}],
     reversed \in BOOLEAN}

\* a text with the front dampers in SUSPENSION and a DAMPER section that
\* is missing, has no key, has BUMP_LF only, or has BUMP_LF and REBOUND_LF
DamperText(carId, damper) ==
  <<PairLine("CAR", <<carId>>), PairLine("TIMESTAMP", <<"2026-02-03T09:00:00.000Z">>),
    HeaderLine("SUSPENSION"), PairLine("BUMP_LF", N(5)), PairLine("REBOUND_LF", N(6))>>
  \o (IF damper = "none" THEN <<>> ELSE <<HeaderLine("DAMPER")>>)
  \o (IF damper \in {"bump", "both"} THEN <<PairLine("BUMP_LF", N(8))>> ELSE <<>>)
  \o (IF damper = "both" THEN <<PairLine("REBOUND_LF", N(9))>> ELSE <<>>)

DamperTexts ==
  {DamperText(id, damper) : id \in CarIds, damper \in {"none", "empty", "bump", "both"}}

\* a text with a BRAKE section that has the keys of keys
PathKeys == <<"BIAS_X", "TC", "LABEL", "NOTES", "AUTHOR">>
PathText(carId, keys) ==
  <<PairLine("CAR", <<carId>>), PairLine("TIMESTAMP", <<"2026-02-03T09:00:00.000Z">>),
    HeaderLine("BRAKE")>>
  \o [j \in 1..Len(SelectSeq(PathKeys, LAMBDA k : k \in keys)) |->
        PairLine(SelectSeq(PathKeys, LAMBDA k : k \in keys)[j], N(3))]

PathTexts ==
  {PathText(id, keys) : id \in {"mclaren_720s_gt3", "ferrari_488_gt3"},
                        keys \in SUBSET {PathKeys[j] : j \in 1..Len(PathKeys)}}

\* decoding under a definition with conflicting target fields
PathNext ==
  \/ RegisterCarMapping(conflictingMapping)
  \/ \E text \in PathTexts : NewText(text)
  \/ Discard
  \/ \E now \in Clock : ParseString(now)

PathSpec == Init /\ [][PathNext]_vars

DecodeNext ==
  \/ \E text \in ProbeTexts \cup HeaderTexts \cup DamperTexts : NewText(text)
  \/ Discard
  \/ \E now \in Clock : ParseString(now)

DecodeSpec == Init /\ [][DecodeNext]_vars

(***************************************************************************)
(* The functions of the package (index.ts): each call makes a parser of    *)
(* its own with createDefaultParser and uses it once.  The SetupParser of  *)
(* the state is an instance that other code holds and registers mappings   *)
(* on.                                                                     *)
(***************************************************************************)
\* a variant of createDefaultParser that hands out the one instance of the state
createSharedParser == carMappings

\* createDefaultParser(): the Map of new SetupParser([ferrari, porsche])
createDefaultParser == Construct(<<>>, <<ferrari488GT3Mapping, porsche911GT3RMapping>>)

\* parseSetupString(content) on the text the caller holds
ParseSetupString(now) ==
  /\ hist # <<>> /\ Len(hist) <= MaxChain
  /\ hist[Len(hist)].kind = "text"
  /\ \E parser \in {createDefaultParser} :
       \E setup \in {parseString(parser, hist[Len(hist)].text, now)} :
         /\ SetupInRange(setup)
         /\ hist' = Append(hist, [Parsed(setup, Selected(parser, setup.p[<<"carId">>]))
                                    EXCEPT !.from = "parseSetupString"])
  /\ UNCHANGED <<carMappings, last, calc, editor>>

\* the package's convertToSto(setup) on the setup the caller holds
ModuleConvertToSto(now) ==
  /\ hist # <<>> /\ Len(hist) <= MaxChain
  /\ hist[Len(hist)].kind = "setup"
  /\ \E parser \in {createDefaultParser} :
       \E text \in {convertToSto(parser, hist[Len(hist)].setup, now)} :
         /\ TextInRange(text)
         /\ hist' = Append(hist, [Written(text, Selected(parser, hist[Len(hist)].setup.p[<<"carId">>]))
                                    EXCEPT !.from = "module convertToSto"])
  /\ UNCHANGED <<carMappings, last, calc, editor>>

ModuleNext ==
  \/ \E mapping \in Dialects : RegisterCarMapping(mapping)
  \/ \E setup \in {SetupOf(id, TypicalNumbers, {"differential", "rearWing"}) : id \in CarIds} :
       NewSetup(setup)
  \/ \E text \in {TireText} \cup {CamberText(id) : id \in CarIds} : NewText(text)
  \/ Discard
  \/ \E now \in Clock : ParseString(now)
  \/ \E now \in Clock : ParseSetupString(now)
  \/ \E now \in Clock : ModuleConvertToSto(now)

ModuleSpec == Init /\ [][ModuleNext]_vars

(***************************************************************************)
(* A record that is decoded, edited and written again: the caller changes  *)
(* one of name, carId, trackId and metadata.version of the record that     *)
(* parseString returned, then passes the record to convertToSto and the    *)
(* text to parseString.                                                    *)
(***************************************************************************)
\* the changes a caller makes to a record: a path and its new value
Edits ==
  {<<<<"name">>, Word("Sprint")>>, <<<<"trackId">>, Word("imola")>>,
   <<<<"metadata", "version">>, Str(<<"3">>)>>}
  \cup {<<<<"carId">>, Word(id)>> : id \in CarIds}

\* the caller assigns value to the property at path of the record it holds
Edit(path, value) ==
  /\ hist # <<>>
  /\ hist[Len(hist)].from = "parseString"
  /\ hist[Len(hist)].setup.p[path] # value
  /\ hist' = [hist EXCEPT ![Len(hist)] =
               [@ EXCEPT !.setup.p = With(@, path, value), !.from = "edit"]]
  /\ UNCHANGED <<carMappings, last, calc, editor>>

EditNext ==
  \/ \E text \in {TireText, ExtraText} \cup {CamberText(id) : id \in CarIds} : NewText(text)
  \/ Discard
  \/ \E now \in Clock : ParseString(now)
  \/ \E e \in Edits : Edit(e[1], e[2])
  \/ \E now \in Clock : ConvertToSto(now)

EditSpec == Init /\ [][EditNext]_vars

(***************************************************************************)
(* What the claims speak of                                                *)
(***************************************************************************)
\* hist[i] is what parseString / convertToSto returned for hist[i - 1].
\* hist grows by one value per call, so every chain of calls is, in some
\* state, the end of hist: the formulas speak of the last calls of a state.
IsParse(i) == i \in 2..Len(hist) /\ hist[i].from = "parseString"
IsWrite(i) == i \in 2..Len(hist) /\ hist[i].from = "convertToSto"

BuiltIn == {ferrari488GT3Mapping, porsche911GT3RMapping}

\* every field path that mapping m maps holds a number in setup
MappedNumbers(setup, m) ==
  \A x \in MappedPaths(m) : getNestedProperty(setup, x).t = "num"

\* hist[i - 1] -> convertToSto -> hist[i] -> parseString -> hist[i + 1] is
\* a round trip of a record with numbers under the built-in mapping m
RoundTrip(i, m) ==
  /\ IsWrite(i) /\ IsParse(i + 1)
  /\ hist[i].by = m /\ hist[i + 1].by = m
  /\ MappedNumbers(hist[i - 1].setup, m)

\* the paths of m that go through the transformation named tr
Through(m, tr) ==
  {x \in MappedPaths(m) : Has(m.valueTransformations, x) /\ At(m.valueTransformations, x) = tr}

\* b is the double a or one of its two neighbours
Neighbours(a, b) ==
  /\ a.t = "num" /\ b.t = "num"
  /\ a.m = b.m /\ a.e = b.e
  /\ a.u - b.u \in {-1, 0, 1}

\* C1 (as claimed): under each built-in mapping, for a record of that car
\* whose mapped fields hold numbers, parseString(convertToSto(record)) has
\* the same value as the record at every field path the mapping maps.
C1_RoundTripExact ==
  \A m \in BuiltIn : \A i \in {Len(hist) - 1} :
    RoundTrip(i, m) =>
      \A x \in MappedPaths(m) :
        getNestedProperty(hist[i + 1].setup, x) = getNestedProperty(hist[i - 1].setup, x)

\* C1 (amended): the same, except that a Porsche spring rate, which is
\* written divided by 1000 and read multiplied by 1000, comes back as the
\* same double or one of its two neighbours; it comes back exactly when it is
\* a whole multiple of 1000.
C1_RoundTripUpToRounding ==
  \A m \in BuiltIn : \A i \in {Len(hist) - 1} :
    RoundTrip(i, m) =>
      \A x \in MappedPaths(m) :
        LET was == getNestedProperty(hist[i - 1].setup, x)
            back == getNestedProperty(hist[i + 1].setup, x)
        IN IF x \in Through(m, "porscheSpringRate")
              /\ ~(was.e = 0 /\ was.u = 0 /\ was.m % 1000 = 0)
           THEN Neighbours(was, back)
           ELSE back = was

\* a Porsche round trip has happened in which a spring rate came back changed
C1_Witness ==
  \E i \in {Len(hist) - 1} :
    /\ RoundTrip(i, porsche911GT3RMapping)
    /\ getNestedProperty(hist[i + 1].setup, <<"suspension", "front", "springRate">>)
         # getNestedProperty(hist[i - 1].setup, <<"suspension", "front", "springRate">>)
    /\ getNestedProperty(hist[i + 1].setup, <<"suspension", "front", "camber">>)
         = getNestedProperty(hist[i - 1].setup, <<"suspension", "front", "camber">>)

\* C2: for a text t that convertToSto produced, parseString(convertToSto(
\* parseString(t))) equals parseString(t) on every field of the record, the
\* three calls being served by one mapping (a registered one, or the
\* generic fallback).
C2_TextRoundTrip ==
  \A i \in {Len(hist) - 3} :
    (/\ IsWrite(i) /\ IsParse(i + 1) /\ IsWrite(i + 2) /\ IsParse(i + 3)
     /\ hist[i + 2].by = hist[i + 1].by /\ hist[i + 3].by = hist[i + 1].by)
    => hist[i + 3].setup = hist[i + 1].setup

\* such a chain has happened, under a registered mapping, on a text with a
\* spring rate that is no whole number
C2_Witness ==
  \E i \in {Len(hist) - 3} :
    /\ IsWrite(i) /\ IsParse(i + 1) /\ IsWrite(i + 2) /\ IsParse(i + 3)
    /\ hist[i + 1].by = porsche911GT3RMapping
    /\ hist[i + 2].by = porsche911GT3RMapping /\ hist[i + 3].by = porsche911GT3RMapping
    /\ hist[i].text = hist[i + 2].text
    /\ \E j \in 1..Len(hist[i].text) :
         hist[i].text[j] = PairLine("FRONT_SPRING_RATE", <<"1", ".", "0", "0", "1">>)

\* text uses the section and key names of mapping m (of the generic
\* fallback when m is NoMapping) for the values that setup holds
UsesNames(text, m, setup) ==
  LET table == IniParse(text)
      entries == MappingEntries(m.fieldMappings)
  IN IF m = NoMapping
     THEN /\ Sub(table, "TIRE", "LEFT_FRONT").t # "undefined"
          /\ Sub(table, "SUSPENSION", "SPRING_RATE_LF").t # "undefined"
     ELSE \A j \in 1..Len(entries) :
            getNestedProperty(setup, entries[j].target).t # "undefined"
            => Sub(table, entries[j].section, entries[j].source).t # "undefined"

\* C3 (as claimed): a record that parseString returned and that is then
\* passed, carId unchanged, to convertToSto is written with the section and
\* key names of the mapping that decoded it, whatever registerCarMapping
\* calls came between.
C3_SameMapping ==
  \A i \in {Len(hist) - 1} :
    IsParse(i) /\ IsWrite(i + 1) => UsesNames(hist[i + 1].text, hist[i].by, hist[i].setup)

\* C3 (amended): it is written with the section and key names of the mapping
\* that is registered for its carId when convertToSto is called (the generic
\* fallback when none is): the mapping that decoded it only as long as no
\* registerCarMapping call has set that carId since.
C3_MappingAtCall ==
  \A i \in {Len(hist) - 1} :
    IsParse(i) /\ IsWrite(i + 1) =>
      UsesNames(hist[i + 1].text, hist[i + 1].by, hist[i].setup)

\* a record was decoded by one mapping and written by another
C3_Witness ==
  \E i \in {Len(hist) - 1} :
    /\ IsParse(i) /\ IsWrite(i + 1)
    /\ hist[i].by = ferrari488GT3Mapping
    /\ hist[i + 1].by = ferrariRedefined

Registration == last.op \in {"constructor", "registerCarMapping"}

\* the last element of a call's mappings that has the carId of its j-th
LastFor(arg, j) ==
  arg[CHOOSE i \in j..Len(arg) :
        /\ arg[i].carId = arg[j].carId
        /\ \A l \in (i + 1)..Len(arg) : arg[l].carId # arg[j].carId]

\* C4 (as claimed): registering a mapping whose carId the Map already holds
\* (in the constructor's array or by registerCarMapping) fails with
\* DuplicateDialectError and leaves the definition registered before in place.
C4_DuplicateRejected ==
  Registration /\ last.was # NoMapping =>
    /\ last.error = "DuplicateDialectError"
    /\ carMappings[last.was.carId] = last.was

\* C4 (amended): such a registration does not fail: it replaces the
\* definition registered before, so after the constructor or
\* registerCarMapping the Map holds, for each carId given, the definition
\* given last.
C4_LastRegistrationWins ==
  Registration =>
    /\ last.error = "none"
    /\ \A j \in 1..Len(last.arg) :
         /\ last.arg[j].carId \in DOMAIN carMappings
         /\ carMappings[last.arg[j].carId] = LastFor(last.arg, j)

\* registerCarMapping has replaced a definition by a different one
C4_Witness ==
  /\ last.op = "registerCarMapping"
  /\ last.was = ferrari488GT3Mapping
  /\ last.arg = <<ferrariRedefined>>
  /\ carMappings["ferrari_488_gt3"] = ferrariRedefined

\* the value the constructed setup has at a path before any mapping is applied
InitialAt(x) ==
  getNestedProperty(
    InitialSetup([header |-> [version |-> Str(<<>>), carIdentifier |-> Str(<<>>),
                              trackIdentifier |-> Str(<<>>), name |-> Str(<<>>),
                              timestamp |-> Str(<<>>)],
                  sections |-> <<>>], ""), x)

\* C5 (as claimed): registering a definition whose valueTransformations
\* names a field path that no section of fieldMappings targets fails with
\* InvalidDialectError, so the Map never holds such a definition.
C5_OrphanRejected ==
  /\ \A id \in DOMAIN carMappings : Orphans(carMappings[id]) = {}
  /\ (Registration /\ \E j \in 1..Len(last.arg) : Orphans(last.arg[j]) # {})
       => last.error = "InvalidDialectError"

\* C5 (amended): a registration is not validated: such a definition is
\* registered like any other, and its orphan transformation is never
\* applied, so a record decoded under it has, at the orphan path, the value
\* it was constructed with.
C5_OrphanRegistered ==
  /\ Registration =>
       \A j \in 1..Len(last.arg) :
         (Orphans(last.arg[j]) # {} /\ LastFor(last.arg, j) = last.arg[j])
         => /\ last.error = "none"
            /\ last.arg[j].carId \in DOMAIN carMappings
            /\ carMappings[last.arg[j].carId] = last.arg[j]
  /\ \A i \in {Len(hist)} :
       IsParse(i) => \A x \in Orphans(hist[i].by) :
                       getNestedProperty(hist[i].setup, x) = InitialAt(x)

\* a definition with an orphan path is registered and has decoded a text
C5_Witness ==
  /\ "ferrari_488_gt3" \in DOMAIN carMappings
  /\ Orphans(carMappings["ferrari_488_gt3"]) = {<<"aero", "frontWing">>}
  /\ \E i \in {Len(hist)} : IsParse(i) /\ hist[i].by = carMappings["ferrari_488_gt3"]

ReservedKeys == {"VERSION", "CAR", "TRACK", "TIMESTAMP"}

\* the text has a section header without its "]", or a key outside any
\* section that is none of the reserved header keys
Malformed(text) ==
  \E j \in 1..Len(text) :
    \/ text[j].k = "key" /\ \E n \in ProcessedSections : text[j].name = OpenHeader(n)
    \/ /\ text[j].k \in {"pair", "key"}
       /\ \A l \in 1..(j - 1) : text[l].k # "section"
       /\ text[j].name \notin ReservedKeys

\* C6: parseString fails with MalformedInputError and returns no record for a
\* text that cannot be tokenized into section / key / value lines (an
\* unterminated section header, a key outside any section that is no
\* reserved header key).
C6_MalformedRejected ==
  \A i \in {Len(hist)} :
    IsParse(i) /\ Malformed(hist[i - 1].text) =>
      /\ hist[i].setup = NoSetup
      /\ (last.op = "parseString" => last.error = "MalformedInputError")

\* the gear keys of a text's GEARS section
GearPresent(text, k) == Sub(IniParse(text), "GEARS", GearKey(k)).t # "undefined"

\* C7 (as claimed): under the generic fallback the gear ratios are those of
\* GEAR_1, GEAR_2, ... up to the first index in 1..8 that is missing: GEAR_1,
\* GEAR_2 and GEAR_4 without GEAR_3 give two elements.
C7_StopsAtHole ==
  \A i \in {Len(hist)} :
    IsParse(i) /\ hist[i].by = NoMapping =>
      Len(hist[i].setup.gears)
        = Cardinality({k \in 1..8 : \A j \in 1..k : GearPresent(hist[i - 1].text, j)})

\* C7 (amended): under the generic fallback the gear ratios are those of
\* every key GEAR_i, i in 1..8, that the GEARS section has, in index order:
\* a missing index is skipped and does not end the sequence, so GEAR_1,
\* GEAR_2 and GEAR_4 without GEAR_3 give three elements.
C7_SkipsHoles ==
  \A i \in {Len(hist)} :
    IsParse(i) /\ hist[i].by = NoMapping =>
      LET text == hist[i - 1].text
          gears == hist[i].setup.gears
      IN /\ Len(gears) = Cardinality({k \in 1..8 : GearPresent(text, k)})
         /\ \A k \in 1..8 :
              GearPresent(text, k) =>
                gears[Cardinality({j \in 1..k : GearPresent(text, j)})]
                  = parseNumber(Sub(IniParse(text), "GEARS", GearKey(k)))
         /\ (text = GearText => gears = <<Num(31, 1, 0), Num(21, 1, 0), Num(12, 1, 0)>>)

\* the text with GEAR_1, GEAR_2 and GEAR_4 has been decoded by the fallback
C7_Witness ==
  \E i \in {Len(hist)} :
    /\ IsParse(i) /\ hist[i].by = NoMapping
    /\ hist[i - 1].text = GearText
    /\ Len(hist[i].setup.gears) = 3

\* the four pairs of the tire example, as ini reads them
TirePairs ==
  <<[k |-> "PRESSURE_LF", v |-> Str(N(172))], [k |-> "PRESSURE_RF", v |-> Str(N(172))],
    [k |-> "PRESSURE_LR", v |-> Str(N(165))], [k |-> "PRESSURE_RR", v |-> Str(N(165))]>>

\* text names the Ferrari and its TIRE section holds the four pairs
TireExample(text) ==
  /\ Top(IniParse(text), "CAR") = Word("ferrari_488_gt3")
  /\ SectionOrEmpty(IniParse(text), "TIRE") = TirePairs

\* C8: with the Ferrari mapping registered, a text with CAR=ferrari_488_gt3
\* and a TIRE section holding PRESSURE_LF=172, PRESSURE_RF=172,
\* PRESSURE_LR=165, PRESSURE_RR=165 decodes to tirePressures {frontLeft:
\* 172, frontRight: 172, rearLeft: 165, rearRight: 165}, and encoding that
\* record writes the same four pairs, with the same key names, under TIRE.
C8_TireExample ==
  \A i \in {Len(hist) - 1, Len(hist)} :
    (/\ IsParse(i) /\ hist[i].by = ferrari488GT3Mapping
     /\ TireExample(hist[i - 1].text))
    => /\ {x \in DOMAIN hist[i].setup.p : Len(x) = 2 /\ x[1] = "tirePressures"}
            = {<<"tirePressures", "frontLeft">>, <<"tirePressures", "frontRight">>,
               <<"tirePressures", "rearLeft">>, <<"tirePressures", "rearRight">>}
       /\ hist[i].setup.p[<<"tirePressures", "frontLeft">>] = Int0(172)
       /\ hist[i].setup.p[<<"tirePressures", "frontRight">>] = Int0(172)
       /\ hist[i].setup.p[<<"tirePressures", "rearLeft">>] = Int0(165)
       /\ hist[i].setup.p[<<"tirePressures", "rearRight">>] = Int0(165)
       /\ (IsWrite(i + 1) /\ hist[i + 1].by = ferrari488GT3Mapping
             => SectionOrEmpty(IniParse(hist[i + 1].text), "TIRE") = TirePairs)

\* the example text has been decoded and the record encoded, by the Ferrari mapping
C8_Witness ==
  \E i \in {Len(hist) - 1} :
    /\ IsParse(i) /\ hist[i].by = ferrari488GT3Mapping
    /\ hist[i - 1].text = TireText
    /\ IsWrite(i + 1) /\ hist[i + 1].by = ferrari488GT3Mapping

Cambers ==
  {[key |-> "CAMBER_LF", path |-> <<"suspension", "front", "camber">>],
   [key |-> "CAMBER_LR", path |-> <<"suspension", "rear", "camber">>]}

\* the number a raw value stands for (NaN when it stands for none)
RawNumber(raw) == IF raw.t = "str" THEN StringToNumber(raw.s) ELSE NaN

\* v and w are numbers, and w is -v
Opposite(v, w) ==
  /\ v.t = "num" /\ w.t = "num"
  /\ w.m = -v.m /\ w.e = v.e /\ w.u = -v.u

\* C9: under the Ferrari mapping, raw SUSPENSION.CAMBER_LF = v decodes to
\* suspension.front.camber = -v, and a record with suspension.front.camber
\* = -v is encoded with CAMBER_LF = v; the same for CAMBER_LR and the rear.
C9_CamberSignFlip ==
  \A i \in {Len(hist)} : \A c \in Cambers :
    /\ (IsParse(i) /\ hist[i].by = ferrari488GT3Mapping
        /\ RawNumber(Sub(IniParse(hist[i - 1].text), "SUSPENSION", c.key)).t = "num")
       => Opposite(RawNumber(Sub(IniParse(hist[i - 1].text), "SUSPENSION", c.key)),
                   getNestedProperty(hist[i].setup, c.path))
    /\ (IsWrite(i) /\ hist[i].by = ferrari488GT3Mapping
        /\ getNestedProperty(hist[i - 1].setup, c.path).t = "num")
       => Opposite(getNestedProperty(hist[i - 1].setup, c.path),
                   RawNumber(Sub(IniParse(hist[i].text), "SUSPENSION", c.key)))

\* raw 3.0 has been decoded to -3, and -3 encoded to 3
C9_Witness ==
  \E i \in {Len(hist) - 1} :
    /\ IsParse(i) /\ hist[i].by = ferrari488GT3Mapping
    /\ hist[i - 1].text = CamberText("ferrari_488_gt3")
    /\ getNestedProperty(hist[i].setup, <<"suspension", "front", "camber">>) = Int0(-3)
    /\ getNestedProperty(hist[i].setup, <<"suspension", "rear", "camber">>) = Num(-25, 1, 0)
    /\ IsWrite(i + 1) /\ hist[i + 1].by = ferrari488GT3Mapping
    /\ Sub(IniParse(hist[i + 1].text), "SUSPENSION", "CAMBER_LF") = Str(<<"3">>)

\* C10: for each transformation of the built-in mappings (the camber
\* negations, the Porsche spring rate x 1000 / divided by 1000),
\* toRaw(fromRaw(x)) = x for every integer x tried: zero, negative and
\* large ones among them.
C10_TransformInverse ==
  calc.stage = 3 => calc.z = calc.x

\* the spring rate transformation has been applied, there and back, to a
\* large negative integer
C10_Witness ==
  /\ calc.stage = 3
  /\ calc.tr = "porscheSpringRate"
  /\ calc.x = Int0(-250000)
  /\ calc.y = Int0(-250000000)

(***************************************************************************)
(* The generic fallback, field by field                                    *)
(***************************************************************************)
GF(sec, a, b, path) == [sec |-> sec, a |-> a, b |-> b, path |-> path]

\* the fields the fallback reads, each with its section and its two keys
GenericFields ==
  {GF("TIRE", "LEFT_FRONT", "PRESSURE_LF", <<"tirePressures", "frontLeft">>),
   GF("TIRE", "RIGHT_FRONT", "PRESSURE_RF", <<"tirePressures", "frontRight">>),
   GF("TIRE", "LEFT_REAR", "PRESSURE_LR", <<"tirePressures", "rearLeft">>),
   GF("TIRE", "RIGHT_REAR", "PRESSURE_RR", <<"tirePressures", "rearRight">>),
   GF("SUSPENSION", "SPRING_RATE_LF", "FRONT_SPRING_RATE", <<"suspension", "front", "springRate">>),
   GF("SUSPENSION", "RIDE_HEIGHT_LF", "FRONT_RIDE_HEIGHT", <<"suspension", "front", "rideHeight">>),
   GF("SUSPENSION", "CAMBER_LF", "FRONT_CAMBER", <<"suspension", "front", "camber">>),
   GF("SUSPENSION", "TOE_IN_LF", "FRONT_TOE", <<"suspension", "front", "toe">>),
   GF("SUSPENSION", "FRONT_ANTI_ROLL_BAR", "ARB_FRONT", <<"suspension", "front", "antiRollBar">>),
   GF("SUSPENSION", "SPRING_RATE_LR", "REAR_SPRING_RATE", <<"suspension", "rear", "springRate">>),
   GF("SUSPENSION", "RIDE_HEIGHT_LR", "REAR_RIDE_HEIGHT", <<"suspension", "rear", "rideHeight">>),
   GF("SUSPENSION", "CAMBER_LR", "REAR_CAMBER", <<"suspension", "rear", "camber">>),
   GF("SUSPENSION", "TOE_IN_LR", "REAR_TOE", <<"suspension", "rear", "toe">>),
   GF("SUSPENSION", "REAR_ANTI_ROLL_BAR", "ARB_REAR", <<"suspension", "rear", "antiRollBar">>),
   GF("DAMPER", "BUMP_LF", "FRONT_BUMP", <<"dampers", "front", "bump">>),
   GF("DAMPER", "REBOUND_LF", "FRONT_REBOUND", <<"dampers", "front", "rebound">>),
   GF("DAMPER", "BUMP_LR", "REAR_BUMP", <<"dampers", "rear", "bump">>),
   GF("DAMPER", "REBOUND_LR", "REAR_REBOUND", <<"dampers", "rear", "rebound">>),
   GF("AERO", "FRONT_WING", "WING_FRONT", <<"aero", "frontWing">>),
   GF("AERO", "REAR_WING", "WING_REAR", <<"aero", "rearWing">>),
   GF("BRAKE", "BIAS", "BRAKE_BIAS", <<"brakeBias">>)}

\* the raw table of a text, and what it holds for a key of a field: the
\* dampers are read from SUSPENSION when the table has no DAMPER section
RawOf(text) == IniParse(text)
RawAt(raw, sec, key) ==
  IF sec = "DAMPER" /\ ~Has(raw, "DAMPER") THEN Sub(raw, "SUSPENSION", key)
  ELSE Sub(raw, sec, key)
\* the value is the text of a number
Numeric(v) == v.t = "str" /\ v.s # <<>> /\ StringToNumber(v.s).t = "num"
Absent(v) == v.t = "undefined"

\* C11: when nothing is registered for the text's CAR, parseString fills
\* each field of the tire pressures, the suspension, the dampers, the aero
\* wings and the brake bias from the raw table: with the number under the
\* field's first key when that key holds one, and with the number under its
\* second key when the first key is absent and the second holds one.
C11_FallbackFills ==
  \A i \in {Len(hist)} :
    IsParse(i) /\ hist[i].by = NoMapping =>
      \A g \in GenericFields :
        LET raw == RawOf(hist[i - 1].text)
            a == RawAt(raw, g.sec, g.a)
            b == RawAt(raw, g.sec, g.b)
            field == getNestedProperty(hist[i].setup, g.path)
        IN /\ Numeric(a) => field = StringToNumber(a.s)
           /\ Absent(a) /\ Numeric(b) => field = StringToNumber(b.s)

\* a text with LEFT_FRONT absent and PRESSURE_LF=16.5 has been decoded by
\* the fallback, and the front left tire pressure is 16.5
C11_Witness ==
  \E i \in {Len(hist)} :
    /\ IsParse(i) /\ hist[i].by = NoMapping
    /\ Absent(Sub(RawOf(hist[i - 1].text), "TIRE", "LEFT_FRONT"))
    /\ Sub(RawOf(hist[i - 1].text), "TIRE", "PRESSURE_LF") = Str(<<"1", "6", ".", "5">>)
    /\ getNestedProperty(hist[i].setup, <<"tirePressures", "frontLeft">>) = Num(165, 1, 0)

\* a parser that has nothing registered but the mapping m
Alone(m) == Construct(<<>>, IF m = NoMapping THEN <<>> ELSE <<m>>)

\* C12: the calls of parseString and convertToSto on one parser, in any
\* order and among any registrations, share no state: a call leaves the Map
\* and every value returned before as they were, and returns what the same
\* call returns on a parser of its own that holds just the mapping selected.
C12_CallsShareNothing ==
  [][(Len(hist) >= 1 /\ Len(hist') = Len(hist) + 1) =>
       LET in == hist[Len(hist)]
           r == hist'[Len(hist')]
       IN /\ carMappings' = carMappings
          /\ SubSeq(hist', 1, Len(hist)) = hist
          /\ r.from = "parseString" =>
               \E now \in Clock : r.setup = parseString(Alone(r.by), in.text, now)
          /\ r.from = "convertToSto" =>
               \E now \in Clock : r.text = convertToSto(Alone(r.by), in.setup, now)]_vars

\* calls of both kinds have run in turn on a parser with two mappings
\* registered, the last of them under a mapping
C12_Witness ==
  /\ Len(hist) >= 4
  /\ IsWrite(Len(hist) - 1) /\ IsParse(Len(hist))
  /\ hist[Len(hist)].by # NoMapping
  /\ Cardinality(DOMAIN carMappings) = 2

\* the last call on the parser returned the last value of hist
JustParsed == IsParse(Len(hist)) /\ last.op = "parseString"
JustWritten == IsWrite(Len(hist)) /\ last.op = "convertToSto"
Created == <<"metadata", "created">>
Modified == <<"metadata", "modified">>
\* two setups that differ at most in the two dates of their metadata
SameButDates(s1, s2) ==
  /\ s1.gears = s2.gears /\ s1.extra = s2.extra
  /\ DOMAIN s1.p = DOMAIN s2.p
  /\ \A x \in DOMAIN s1.p \ {Created, Modified} : s1.p[x] = s2.p[x]
NoStamp(text) == SelectSeq(text, LAMBDA ln : ln.name # "TIMESTAMP")

\* C13 (as claimed): the same call again, on the same input and the same
\* Map, returns the same record (parseString) or the same text
\* (convertToSto), at whatever time it is made, for every input.
C13_Deterministic ==
  /\ JustParsed =>
       \A now \in Clock :
         parseString(carMappings, hist[Len(hist) - 1].text, now) = hist[Len(hist)].setup
  /\ JustWritten =>
       \A now \in Clock :
         convertToSto(carMappings, hist[Len(hist) - 1].setup, now) = hist[Len(hist)].text

\* C13 (amended): it does so for a text that has a TIMESTAMP and for a
\* record that has metadata.modified.  Without them the time of the call is
\* part of the result: the records differ at most in metadata.created and
\* metadata.modified, which hold the time of the call, and the texts at
\* most in their TIMESTAMP line.
C13_DeterministicGivenTimestamp ==
  /\ JustParsed =>
       \A now \in Clock :
         LET text == hist[Len(hist) - 1].text
             again == parseString(carMappings, text, now)
         IN IF Truthy(Top(RawOf(text), "TIMESTAMP"))
            THEN again = hist[Len(hist)].setup
            ELSE /\ SameButDates(again, hist[Len(hist)].setup)
                 /\ again.p[Created] = Word(now) /\ again.p[Modified] = Word(now)
  /\ JustWritten =>
       \A now \in Clock :
         LET setup == hist[Len(hist) - 1].setup
             again == convertToSto(carMappings, setup, now)
         IN IF Truthy(getNestedProperty(setup, Modified))
            THEN again = hist[Len(hist)].text
            ELSE /\ NoStamp(again) = NoStamp(hist[Len(hist)].text)
                 /\ PairLine("TIMESTAMP", <<now>>) \in {again[j] : j \in 1..Len(again)}

\* a record without metadata has been written, with the time of the call
\* as its TIMESTAMP
C13_Witness ==
  /\ JustWritten
  /\ getNestedProperty(hist[Len(hist) - 1].setup, <<"metadata">>) = Undefined
  /\ \E now \in Clock :
       PairLine("TIMESTAMP", <<now>>) \in {hist[Len(hist)].text[j] : j \in 1..Len(hist[Len(hist)].text)}

(***************************************************************************)
(* additionalSettings                                                      *)
(***************************************************************************)
ConsumedSections == {"TIRE", "SUSPENSION", "DAMPER", "AERO", "BRAKE", "DIFFERENTIAL", "GEARS"}
SectionNames(raw) == {raw[j].k : j \in {n \in 1..Len(raw) : raw[n].v.sec}}

\* a section as a text holds it: each value as it reads once written
AsWritten(kv) == [j \in 1..Len(kv) |-> [k |-> kv[j].k, v |-> IniValue(IniSafe(kv[j].v))]]

\* decode: every section that is not consumed is in additionalSettings
\* as the raw table has it, and no consumed section is
StoredAsRead(i) ==
  IsParse(i) /\ hist[i].by = NoMapping =>
    LET raw == RawOf(hist[i - 1].text)
        extra == hist[i].setup.extra
    IN /\ \A name \in SectionNames(raw) \ ConsumedSections :
            Has(extra, name) /\ At(extra, name) = At(raw, name)
       /\ Keys(extra) \cap ConsumedSections = {}

\* C14 (as claimed): under the generic fallback every section that is not
\* one of TIRE, SUSPENSION, DAMPER, AERO, BRAKE, DIFFERENTIAL, GEARS is
\* stored, keys and values unchanged, in additionalSettings, none of those
\* seven is, and convertToSto writes every additionalSettings entry as a
\* section of the same name, keys and values.
C14_ExtraSectionsKept ==
  \A i \in {Len(hist)} :
    /\ StoredAsRead(i)
    /\ (IsWrite(i) /\ hist[i].by = NoMapping
        /\ Truthy(getNestedProperty(hist[i - 1].setup, <<"additionalSettings">>)))
       => \A name \in SectionNames(hist[i - 1].setup.extra) :
            /\ name \in SectionNames(RawOf(hist[i].text))
            /\ SectionOrEmpty(RawOf(hist[i].text), name)
                 = AsWritten(SectionOrEmpty(hist[i - 1].setup.extra, name))

\* C14 (amended): the same, but convertToSto writes an additionalSettings
\* entry only when it has a key: an entry without keys (decoded from a
\* section header with nothing under it) leaves nothing in the text.
C14_NonEmptyExtraSectionsKept ==
  \A i \in {Len(hist)} :
    /\ StoredAsRead(i)
    /\ (IsWrite(i) /\ hist[i].by = NoMapping
        /\ Truthy(getNestedProperty(hist[i - 1].setup, <<"additionalSettings">>)))
       => \A name \in SectionNames(hist[i - 1].setup.extra) :
            IF SectionOrEmpty(hist[i - 1].setup.extra, name) = <<>>
            THEN ~Has(RawOf(hist[i].text), name)
            ELSE /\ name \in SectionNames(RawOf(hist[i].text))
                 /\ SectionOrEmpty(RawOf(hist[i].text), name)
                      = AsWritten(SectionOrEmpty(hist[i - 1].setup.extra, name))

\* a record decoded by the fallback, with ELECTRONICS, FUEL and the empty
\* NOTES in its additionalSettings, has been written by the fallback
C14_Witness ==
  /\ IsParse(Len(hist) - 1) /\ hist[Len(hist) - 1].by = NoMapping
  /\ IsWrite(Len(hist)) /\ hist[Len(hist)].by = NoMapping
  /\ {"ELECTRONICS", "FUEL", "NOTES"} \subseteq Keys(hist[Len(hist) - 1].setup.extra)
  /\ At(hist[Len(hist) - 1].setup.extra, "NOTES") = Section(<<>>)
  /\ Sub(RawOf(hist[Len(hist)].text), "ELECTRONICS", "MAP") = Word("wet")

(***************************************************************************)
(* The text layer there and back                                           *)
(***************************************************************************)
\* two objects with the same keys and the same value under each key
SameEntries(o1, o2) ==
  Keys(o1) = Keys(o2) /\ \A k \in Keys(o1) : At(o1, k) = At(o2, k)

\* what a scalar reads as once written: a boolean, null and a text as they
\* are (the texts true, false and null as the literal), a number as the
\* text of its decimal form
Reread(v) ==
  CASE v.t = "num" -> Str(NumToAtoms(v))
    [] v.t = "nan" -> Null
    [] v.t = "undefined" -> Word("undefined")
    [] v.t = "str" /\ v.s = <<"true">> -> Bool(TRUE)
    [] v.t = "str" /\ v.s = <<"false">> -> Bool(FALSE)
    [] v.t = "str" /\ v.s = <<"null">> -> Null
    [] OTHER -> v

\* the table with every scalar as it reads once written, without the
\* sections that have no key
Legible(table) ==
  LET kept == SelectSeq(table, LAMBDA en : ~en.v.sec \/ en.v.kv # <<>>)
  IN [j \in 1..Len(kept) |->
        [k |-> kept[j].k,
         v |-> IF kept[j].v.sec
               THEN Section([n \in 1..Len(kept[j].v.kv) |->
                               [k |-> kept[j].v.kv[n].k, v |-> Reread(kept[j].v.kv[n].v)]])
               ELSE Scalar(Reread(kept[j].v.val))]]

\* C15 (as claimed): the raw table that convertToSto serializes is the
\* raw table that parsing its text gives: same header values, same section
\* names, same keys, same values of the same type.
C15_SerializeParse ==
  JustWritten =>
    \E now \in Clock :
      LET table == RawTable(carMappings, hist[Len(hist) - 1].setup, now)
      IN /\ IniStringify(table) = hist[Len(hist)].text
         /\ SameEntries(RawOf(hist[Len(hist)].text), table)

\* C15 (amended): parsing the text gives the table with the same header
\* keys, the same names of the sections that have a key, the same keys,
\* and each value as the text layer reads it: booleans and words as they
\* were, every number as the text of the number.  Sections without a key
\* are not in the text.
C15_SerializeParseAsText ==
  JustWritten =>
    \E now \in Clock :
      LET table == RawTable(carMappings, hist[Len(hist) - 1].setup, now)
      IN /\ IniStringify(table) = hist[Len(hist)].text
         /\ SameEntries(RawOf(hist[Len(hist)].text), Legible(table))

\* the table written had a number, a boolean, a word and a section without keys
C15_Witness ==
  /\ JustWritten /\ IsParse(Len(hist) - 1)
  /\ \E now \in Clock :
       LET table == RawTable(carMappings, hist[Len(hist) - 1].setup, now)
       IN /\ Sub(table, "TIRE", "LEFT_FRONT") = Int0(172)
          /\ Sub(table, "ELECTRONICS", "ABS") = Bool(TRUE)
          /\ Sub(table, "ELECTRONICS", "MAP") = Word("wet")
          /\ Has(table, "NOTES") /\ SectionOrEmpty(table, "NOTES") = <<>>
  /\ Sub(RawOf(hist[Len(hist)].text), "TIRE", "LEFT_FRONT") = Str(N(172))

(***************************************************************************)
(* The numbers of a decoded record                                         *)
(***************************************************************************)
\* the fields ParsedSetup requires to be numbers
RequiredLeaves ==
  {g.path : g \in {h \in GenericFields : h.sec # "AERO"}}
DefaultOf(path) == IF path = <<"brakeBias">> THEN Int0(50) ELSE Int0(0)

\* the raw value that mapping m reads for the field at path (undefined
\* when m has no entry for it, or the table has not the section or the key)
SourceOf(m, raw, path) ==
  LET es == MappingEntries(m.fieldMappings)
      at == {j \in 1..Len(es) : es[j].target = path}
  IN IF at = {} THEN Undefined
     ELSE Sub(raw, es[CHOOSE j \in at : TRUE].section, es[CHOOSE j \in at : TRUE].source)

\* the text supplied no raw key for the field of g, under mapping m
Unsupplied(m, raw, g) ==
  IF m = NoMapping THEN Absent(RawAt(raw, g.sec, g.a)) /\ Absent(RawAt(raw, g.sec, g.b))
  ELSE Absent(SourceOf(m, raw, g.path))

Unparsable(v) == v.t = "bool" \/ (v.t = "str" /\ ParseFloat(v).t = "nan")

\* C17: when the raw value of a required leaf cannot be parsed as a number
\* (the text abc, a boolean), parseString throws nothing and the leaf is
\* exactly zero: under a mapping, with a transformation on the field or
\* without, and under the fallback (there, for a field with one of its two
\* keys in the text).
C17_UnparsableIsZero ==
  \A i \in {Len(hist)} :
    IsParse(i) =>
      \A g \in {h \in GenericFields : h.path \in RequiredLeaves} :
        LET m == hist[i].by
            raw == RawOf(hist[i - 1].text)
            a == RawAt(raw, g.sec, g.a)
            b == RawAt(raw, g.sec, g.b)
            unparsable ==
              IF m # NoMapping THEN Unparsable(SourceOf(m, raw, g.path))
              ELSE \/ Unparsable(a) /\ Absent(b)
                   \/ Absent(a) /\ Unparsable(b)
        IN unparsable =>
             /\ getNestedProperty(hist[i].setup, g.path) = Int0(0)
             /\ JustParsed => last.error = "none"

\* the number a raw value gives: the number it begins with, else zero
AsNumber(v) == IF v.t = "str" /\ ParseFloat(v).t = "num" THEN ParseFloat(v) ELSE Int0(0)

\* C18 (as claimed): under the fallback each field takes the value of the
\* first of its two keys that the section has, whatever that value is (an
\* empty text, false, a zero); the second key is read only when the first
\* is absent.
C18_FirstPresentWins ==
  \A i \in {Len(hist)} :
    IsParse(i) /\ hist[i].by = NoMapping =>
      \A g \in GenericFields :
        LET raw == RawOf(hist[i - 1].text)
            a == RawAt(raw, g.sec, g.a)
            b == RawAt(raw, g.sec, g.b)
            field == getNestedProperty(hist[i].setup, g.path)
        IN /\ ~Absent(a) => field = AsNumber(a)
           /\ Absent(a) /\ ~Absent(b) => field = AsNumber(b)

\* C18 (amended): each field takes the value of the first of its two keys
\* whose value is truthy: a text that is not empty ("0" included), or
\* true.  A first key that holds an empty text or false is passed over as
\* if it were absent, and the second key is read; when neither key holds a
\* truthy value the field has its default.
C18_FirstTruthyWins ==
  \A i \in {Len(hist)} :
    IsParse(i) /\ hist[i].by = NoMapping =>
      \A g \in GenericFields :
        LET raw == RawOf(hist[i - 1].text)
            a == RawAt(raw, g.sec, g.a)
            b == RawAt(raw, g.sec, g.b)
            field == getNestedProperty(hist[i].setup, g.path)
        IN /\ Truthy(a) => field = AsNumber(a)
           /\ ~Truthy(a) /\ Truthy(b) => field = AsNumber(b)
           /\ ~Truthy(a) /\ ~Truthy(b) => field = DefaultOf(g.path)

\* the fallback has decoded a text with LEFT_FRONT=false and
\* PRESSURE_LF=16.5: the front left tire pressure is 16.5
C18_Witness ==
  \E i \in {Len(hist)} :
    /\ IsParse(i) /\ hist[i].by = NoMapping
    /\ Sub(RawOf(hist[i - 1].text), "TIRE", "LEFT_FRONT") = Bool(FALSE)
    /\ Sub(RawOf(hist[i - 1].text), "TIRE", "PRESSURE_LF") = Str(<<"1", "6", ".", "5">>)
    /\ getNestedProperty(hist[i].setup, <<"tirePressures", "frontLeft">>) = Num(165, 1, 0)

\* the optional blocks of a decoded record, and what the raw table holds for them
Present(setup, path) == ~Absent(getNestedProperty(setup, path))
IsNumber(setup, path) == getNestedProperty(setup, path).t = "num"
Found(raw, sec, keys) == \E k \in keys : ~Absent(Sub(raw, sec, k))
DiffKeys == {"PRELOAD", "DIFF_PRELOAD", "POWER_RAMP", "DIFF_POWER", "COAST_RAMP", "DIFF_COAST"}
DiffLeaves == {<<"differential", "preload">>, <<"differential", "powerRamp">>,
               <<"differential", "coastRamp">>}
GearKeys == {GearKey(n) : n \in 1..8}

\* C19 (as claimed): under the generic fallback an optional block is in the
\* decoded record only if one of its raw keys was found: aero.frontWing only
\* with FRONT_WING or WING_FRONT in AERO, aero.rearWing only with REAR_WING
\* or WING_REAR in AERO, differential only with one of its six keys in
\* DIFFERENTIAL, gearRatios only with a GEAR_n key in GEARS.
C19_OptionalOnlyWhenFound ==
  \A i \in {Len(hist)} :
    IsParse(i) /\ hist[i].by = NoMapping =>
      LET raw == RawOf(hist[i - 1].text)
          setup == hist[i].setup
      IN /\ Present(setup, <<"aero", "frontWing">>) => Found(raw, "AERO", {"FRONT_WING", "WING_FRONT"})
         /\ Present(setup, <<"aero", "rearWing">>) => Found(raw, "AERO", {"REAR_WING", "WING_REAR"})
         /\ Present(setup, <<"differential">>) => Found(raw, "DIFFERENTIAL", DiffKeys)
         /\ Present(setup, <<"gearRatios">>) => Found(raw, "GEARS", GearKeys)

\* C19 (amended): under the generic fallback aero.frontWing and
\* aero.rearWing are always in the decoded record, as numbers, and are zero
\* when AERO has neither of their keys; differential is in the record
\* exactly when the DIFFERENTIAL section has at least one key of any name,
\* and then preload, powerRamp and coastRamp are all numbers, zero for the
\* ones whose keys are missing; gearRatios is in the record exactly when
\* GEARS has a GEAR_n key with n in 1..8, and is then not empty.
C19_OptionalBlocks ==
  \A i \in {Len(hist)} :
    IsParse(i) /\ hist[i].by = NoMapping =>
      LET raw == RawOf(hist[i - 1].text)
          setup == hist[i].setup
      IN /\ IsNumber(setup, <<"aero", "frontWing">>)
         /\ IsNumber(setup, <<"aero", "rearWing">>)
         /\ ~Found(raw, "AERO", {"FRONT_WING", "WING_FRONT"})
              => getNestedProperty(setup, <<"aero", "frontWing">>) = Int0(0)
         /\ ~Found(raw, "AERO", {"REAR_WING", "WING_REAR"})
              => getNestedProperty(setup, <<"aero", "rearWing">>) = Int0(0)
         /\ Present(setup, <<"differential">>) <=> SectionOrEmpty(raw, "DIFFERENTIAL") # <<>>
         /\ Present(setup, <<"differential">>) =>
              /\ \A leaf \in DiffLeaves : IsNumber(setup, leaf)
              /\ ~Found(raw, "DIFFERENTIAL", {"PRELOAD", "DIFF_PRELOAD"})
                   => getNestedProperty(setup, <<"differential", "preload">>) = Int0(0)
              /\ ~Found(raw, "DIFFERENTIAL", {"POWER_RAMP", "DIFF_POWER"})
                   => getNestedProperty(setup, <<"differential", "powerRamp">>) = Int0(0)
              /\ ~Found(raw, "DIFFERENTIAL", {"COAST_RAMP", "DIFF_COAST"})
                   => getNestedProperty(setup, <<"differential", "coastRamp">>) = Int0(0)
         /\ Present(setup, <<"gearRatios">>) <=> Found(raw, "GEARS", GearKeys)
         /\ Present(setup, <<"gearRatios">>) <=> setup.gears # <<>>

\* the fallback has decoded a text whose DIFFERENTIAL section holds only a
\* key no mapping reads, and that has no AERO section: the record has a
\* differential with a preload of zero, and a front wing of zero
C19_Witness ==
  \E i \in {Len(hist)} :
    /\ IsParse(i) /\ hist[i].by = NoMapping
    /\ SectionOrEmpty(RawOf(hist[i - 1].text), "DIFFERENTIAL") # <<>>
    /\ ~Found(RawOf(hist[i - 1].text), "DIFFERENTIAL", DiffKeys)
    /\ ~Has(RawOf(hist[i - 1].text), "AERO")
    /\ getNestedProperty(hist[i].setup, <<"differential", "preload">>) = Int0(0)
    /\ getNestedProperty(hist[i].setup, <<"aero", "frontWing">>) = Int0(0)

\* the paths the entries of a mapping wrote for a raw table, with the
\* objects on the way to them
WrittenPaths(m, raw) ==
  LET es == MappingEntries(m.fieldMappings)
  IN {es[j].target : j \in {k \in 1..Len(es) : ~Absent(Sub(raw, es[k].section, es[k].source))}}
TouchedPaths(m, raw) ==
  UNION {{Prefix(q, n) : n \in 1..Len(q)} : q \in WrittenPaths(m, raw)}

\* C20: under a registered mapping, an entry whose section the raw table
\* lacks, or whose source key that section lacks, writes nothing: its
\* target field has the value it had in the freshly initialised record
\* (zero for a required number, 50 for brakeBias, nothing for an optional
\* field), and every field that no entry wrote is as in that record.
C20_AbsentKeyNoWrite ==
  \A i \in {Len(hist)} :
    IsParse(i) /\ hist[i].by # NoMapping =>
      LET m == hist[i].by
          text == hist[i - 1].text
          raw == RawOf(text)
          setup == hist[i].setup
          es == MappingEntries(m.fieldMappings)
          skipped == {es[j].target : j \in {k \in 1..Len(es) :
                        Absent(Sub(raw, es[k].section, es[k].source))}}
                     \ WrittenPaths(m, raw)
      IN \E now \in Clock :
           LET fresh == InitialSetup(parseIniString(text, now), now)
           IN /\ \A target \in skipped :
                   /\ getNestedProperty(setup, target) = getNestedProperty(fresh, target)
                   /\ getNestedProperty(setup, target) =
                        (IF target \in RequiredLeaves THEN DefaultOf(target) ELSE Undefined)
              /\ \A q \in (DOMAIN setup.p \cup DOMAIN fresh.p) \ TouchedPaths(m, raw) :
                   q \in DOMAIN setup.p /\ q \in DOMAIN fresh.p /\ setup.p[q] = fresh.p[q]
              /\ setup.gears = fresh.gears
              /\ setup.extra = fresh.extra

\* the Ferrari mapping has decoded a text whose TIRE section has
\* LEFT_FRONT but not the PRESSURE_LF it reads, and that has no AERO
\* section: the front left pressure is zero and there is no rear wing
C20_Witness ==
  \E i \in {Len(hist)} :
    /\ IsParse(i) /\ hist[i].by = ferrari488GT3Mapping
    /\ ~Absent(Sub(RawOf(hist[i - 1].text), "TIRE", "LEFT_FRONT"))
    /\ Absent(Sub(RawOf(hist[i - 1].text), "TIRE", "PRESSURE_LF"))
    /\ ~Has(RawOf(hist[i - 1].text), "AERO")
    /\ getNestedProperty(hist[i].setup, <<"tirePressures", "frontLeft">>) = Int0(0)
    /\ Absent(getNestedProperty(hist[i].setup, <<"aero", "rearWing">>))

(***************************************************************************)
(* What a registered mapping writes                                        *)
(***************************************************************************)
\* C21: under a registered mapping, convertToSto writes for every entry
\* whose field the record has the entry's key, in the entry's section,
\* with the field's value after the field's toRaw (the value itself when
\* the field has no transformation), and writes no key for an entry whose
\* field the record lacks.
C21_WritesMappedFields ==
  \A i \in {Len(hist)} :
    IsWrite(i) /\ hist[i].by # NoMapping =>
      LET m == hist[i].by
          setup == hist[i - 1].setup
          raw == RawOf(hist[i].text)
          es == MappingEntries(m.fieldMappings)
      IN \A j \in 1..Len(es) :
           LET value == getNestedProperty(setup, es[j].target)
               written == Sub(raw, es[j].section, es[j].source)
           IN IF Absent(value) THEN Absent(written)
              ELSE written = Reread(IF Has(m.valueTransformations, es[j].target)
                                    THEN ToRaw(At(m.valueTransformations, es[j].target), value)
                                    ELSE value)

\* the Ferrari mapping has written a record with a front camber of -3 and
\* neither rear wing nor differential: the text has CAMBER_LF=3 and none
\* of WING_REAR and PRELOAD
C21_Witness ==
  \E i \in {Len(hist)} :
    /\ IsWrite(i) /\ hist[i].by = ferrari488GT3Mapping
    /\ getNestedProperty(hist[i - 1].setup, <<"suspension", "front", "camber">>) = Int0(-3)
    /\ Absent(getNestedProperty(hist[i - 1].setup, <<"aero", "rearWing">>))
    /\ Absent(getNestedProperty(hist[i - 1].setup, <<"differential">>))
    /\ Sub(RawOf(hist[i].text), "SUSPENSION", "CAMBER_LF") = Str(N(3))
    /\ Absent(Sub(RawOf(hist[i].text), "AERO", "WING_REAR"))
    /\ Absent(Sub(RawOf(hist[i].text), "DIFFERENTIAL", "PRELOAD"))

(***************************************************************************)
(* The fallback there and back                                             *)
(***************************************************************************)
\* the field paths the fallback writes and reads
FallbackPaths == {g.path : g \in GenericFields} \cup DiffLeaves

\* hist[i - 1] -> convertToSto -> hist[i] -> parseString -> hist[i + 1],
\* both under the fallback
FallbackRoundTrip(i) ==
  /\ IsWrite(i) /\ IsParse(i + 1)
  /\ hist[i].by = NoMapping /\ hist[i + 1].by = NoMapping

\* C22: the fallback writes each field under the first key name the
\* fallback reads for it, in a section the fallback reads it from, so for
\* every record of a car without a registered mapping
\* parseString(convertToSto(record)) has every tire, suspension, damper,
\* aero, brake and differential value and every gear ratio of the record.
C22_FallbackRoundTrip ==
  \A i \in {Len(hist) - 1} :
    FallbackRoundTrip(i) =>
      /\ \A g \in GenericFields :
           Present(hist[i - 1].setup, g.path) =>
             Sub(RawOf(hist[i].text), IF g.sec = "DAMPER" THEN "SUSPENSION" ELSE g.sec, g.a)
               = Reread(getNestedProperty(hist[i - 1].setup, g.path))
      /\ \A path \in FallbackPaths :
           Present(hist[i - 1].setup, path) =>
             getNestedProperty(hist[i + 1].setup, path) = getNestedProperty(hist[i - 1].setup, path)
      /\ hist[i + 1].setup.gears = hist[i - 1].setup.gears

(***************************************************************************)
(* The header keys of a text                                               *)
(***************************************************************************)
\* the header keys, the field each one fills and the field's default
HeaderKeys ==
  {[key |-> "VERSION", path |-> <<"metadata", "version">>, default |-> Str(<<"1", ".", "0">>)],
   [key |-> "CAR", path |-> <<"carId">>, default |-> Str(<<>>)],
   [key |-> "TRACK", path |-> <<"trackId">>, default |-> Str(<<>>)],
   [key |-> "ACTIVE", path |-> <<"name">>, default |-> Word("Unnamed Setup")]}

\* the lines of text that give key a plain value (a word that is not
\* empty and none of true, false, null), and the section a line is in
\* ("" before the first section header)
LinesOf(text, key) ==
  {j \in 1..Len(text) :
     /\ text[j].k = "pair" /\ text[j].name = key
     /\ text[j].val \notin {<<>>, <<"true">>, <<"false">>, <<"null">>}}
SectionAt(text, j) ==
  LET heads == {n \in 1..(j - 1) : text[n].k = "section"}
  IN IF heads = {} THEN ""
     ELSE text[CHOOSE n \in heads : \A o \in heads : o <= n].name

\* C23 (as claimed): VERSION, CAR, TRACK and the active setup name are
\* taken into the header wherever their line is in the text, after a
\* section header included: the decoded version, carId, trackId and name
\* are the value of the line whatever its position.
C23_HeaderAnywhere ==
  \A i \in {Len(hist)} :
    IsParse(i) =>
      \A h \in HeaderKeys :
        \A j \in LinesOf(hist[i - 1].text, h.key) :
          LinesOf(hist[i - 1].text, h.key) = {j} =>
            getNestedProperty(hist[i].setup, h.path) = Str(hist[i - 1].text[j].val)

\* C23 (amended): VERSION, CAR and TRACK are taken from a line that comes
\* before the first section header, in any order among such lines; the
\* name is taken from the ACTIVE line of the SETUPS section.  A line of
\* one of these keys in any other place belongs to the section it is in,
\* and the decoded field then has its default: version 1.0, an empty
\* carId or trackId, the name Unnamed Setup.
C23_HeaderByPlace ==
  \A i \in {Len(hist)} :
    IsParse(i) =>
      \A h \in HeaderKeys :
        \A j \in LinesOf(hist[i - 1].text, h.key) :
          LinesOf(hist[i - 1].text, h.key) = {j} =>
            getNestedProperty(hist[i].setup, h.path) =
              (IF SectionAt(hist[i - 1].text, j) = (IF h.key = "ACTIVE" THEN "SETUPS" ELSE "")
               THEN Str(hist[i - 1].text[j].val) ELSE h.default)

\* a text with TRACK before CAR and VERSION, all before the first section,
\* and with ACTIVE in the TIRE section has been decoded: the three are in
\* the record, and the name is Unnamed Setup
C23_Witness ==
  \E i \in {Len(hist)} :
    /\ IsParse(i)
    /\ Len(hist[i - 1].text) >= 3
    /\ hist[i - 1].text[1].name = "TRACK" /\ hist[i - 1].text[2].name = "CAR"
    /\ hist[i - 1].text[3].name = "VERSION"
    /\ \E j \in LinesOf(hist[i - 1].text, "ACTIVE") : SectionAt(hist[i - 1].text, j) = "TIRE"
    /\ getNestedProperty(hist[i].setup, <<"carId">>) = Word("ferrari_488_gt3")
    /\ getNestedProperty(hist[i].setup, <<"trackId">>) = Word("monza")
    /\ getNestedProperty(hist[i].setup, <<"metadata", "version">>) = Str(<<"2">>)
    /\ getNestedProperty(hist[i].setup, <<"name">>) = Word("Unnamed Setup")

\* C24: the raw table parseIniString makes of a text has none of the
\* header entries in its sections: no VERSION, CAR, TRACK or TIMESTAMP
\* entry and no ACTIVE entry of SETUPS; so the additionalSettings of a
\* record the fallback decoded holds no header entry.
C24_HeaderNotInSections ==
  \A i \in {Len(hist)} :
    IsParse(i) =>
      \A now \in Clock :
        LET sections == parseIniString(hist[i - 1].text, now).sections
        IN /\ \A key \in ReservedKeys : ~Has(sections, key)
           /\ Absent(Sub(sections, "SETUPS", "ACTIVE"))
           /\ hist[i].by = NoMapping =>
                /\ \A key \in ReservedKeys : ~Has(hist[i].setup.extra, key)
                /\ Absent(Sub(hist[i].setup.extra, "SETUPS", "ACTIVE"))

(***************************************************************************)
(* The header of an edited record                                          *)
(***************************************************************************)
\* hist[i - 1] is a record parseString returned and the caller then
\* edited, hist[i] its text and hist[i + 1] the record decoded from it
EditedRoundTrip(i) ==
  /\ i \in 2..(Len(hist) - 1)
  /\ hist[i - 1].from = "edit"
  /\ IsWrite(i) /\ IsParse(i + 1)

\* C25: when a record that parseString returned has its name, carId,
\* trackId or metadata.version changed to another non-empty value,
\* parseString(convertToSto(record)) has the carId, trackId, name and
\* version of the edited record, under a registered mapping and under
\* the fallback.
C25_EditedHeaderKept ==
  \A i \in {Len(hist) - 1} :
    EditedRoundTrip(i) =>
      \A h \in HeaderKeys :
        getNestedProperty(hist[i + 1].setup, h.path) = getNestedProperty(hist[i - 1].setup, h.path)

(***************************************************************************)
(* What crosses under a registered mapping                                 *)
(***************************************************************************)
\* mapping m names key in section sec
Names(m, sec, key) ==
  \E j \in 1..Len(MappingEntries(m.fieldMappings)) :
    /\ MappingEntries(m.fieldMappings)[j].section = sec
    /\ MappingEntries(m.fieldMappings)[j].source = key

\* text without the lines of the keys that m does not name; the lines
\* before the first section and those of SETUPS stay
NamedOnly(text, m) ==
  LET keep == {j \in 1..Len(text) :
                 \/ text[j].k \notin {"pair", "key"}
                 \/ SectionAt(text, j) \in {"", "SETUPS"}
                 \/ Names(m, SectionAt(text, j), text[j].name)}
      F[j \in 0..Len(text)] ==
        IF j = 0 THEN <<>> ELSE IF j \in keep THEN Append(F[j - 1], text[j]) ELSE F[j - 1]
  IN F[Len(text)]

\* C26: under a registered mapping only what the mapping names crosses.
\* parseString leaves additionalSettings and gearRatios out of the record
\* and gives the record it gives for the text without the keys the
\* mapping does not name; convertToSto writes the header entries and,
\* in the sections the mapping names, the keys it names there, and
\* nothing else: no gear ratio, no front wing, no additional setting.
C26_OnlyMappedCrosses ==
  \A i \in {Len(hist)} :
    /\ IsParse(i) /\ hist[i].by # NoMapping =>
         /\ ~Present(hist[i].setup, <<"additionalSettings">>) /\ hist[i].setup.extra = <<>>
         /\ ~Present(hist[i].setup, <<"gearRatios">>) /\ hist[i].setup.gears = <<>>
         /\ \E now \in Clock :
              hist[i].setup = parseString(Alone(hist[i].by), NamedOnly(hist[i - 1].text, hist[i].by), now)
    /\ IsWrite(i) /\ hist[i].by # NoMapping =>
         LET raw == RawOf(hist[i].text)
         IN \A n \in 1..Len(raw) :
              IF raw[n].v.sec
              THEN \A k \in Keys(raw[n].v.kv) :
                     \/ raw[n].k = "SETUPS" /\ k = "ACTIVE"
                     \/ Names(hist[i].by, raw[n].k, k)
              ELSE raw[n].k \in ReservedKeys

\* the Porsche mapping has written a record that has gear ratios, a front
\* wing and additional settings: the text has a TIRE section and none of
\* GEARS, ELECTRONICS and FRONT_WING
C26_Witness ==
  \E i \in {Len(hist)} :
    /\ IsWrite(i) /\ hist[i].by = porsche911GT3RMapping
    /\ hist[i - 1].setup.gears # <<>>
    /\ Present(hist[i - 1].setup, <<"aero", "frontWing">>)
    /\ Has(hist[i - 1].setup.extra, "ELECTRONICS")
    /\ ~Absent(Sub(RawOf(hist[i].text), "TIRE", "LEFT_FRONT"))
    /\ ~Has(RawOf(hist[i].text), "GEARS")
    /\ ~Has(RawOf(hist[i].text), "ELECTRONICS")
    /\ Absent(Sub(RawOf(hist[i].text), "AERO", "FRONT_WING"))

(***************************************************************************)
(* The dampers under the fallback                                          *)
(***************************************************************************)
DamperFields == {g \in GenericFields : g.sec = "DAMPER"}
IsSection(raw, name) == \E n \in 1..Len(raw) : raw[n].k = name /\ raw[n].v.sec

\* C27: under the fallback the damper bump and rebound values are read
\* from the DAMPER section whenever the text has that section, and from
\* SUSPENSION only when it has no DAMPER section; a DAMPER section that
\* lacks the keys of a damper field leaves the field zero even when
\* SUSPENSION has them.
C27_DamperSectionFirst ==
  \A i \in {Len(hist)} :
    IsParse(i) /\ hist[i].by = NoMapping =>
      \A g \in DamperFields :
        LET raw == RawOf(hist[i - 1].text)
            from == IF IsSection(raw, "DAMPER") THEN "DAMPER" ELSE "SUSPENSION"
            a == Sub(raw, from, g.a)
            b == Sub(raw, from, g.b)
            field == getNestedProperty(hist[i].setup, g.path)
        IN /\ Numeric(a) => field = StringToNumber(a.s)
           /\ Absent(a) /\ Numeric(b) => field = StringToNumber(b.s)
           /\ Absent(a) /\ Absent(b) => field = Int0(0)

\* the fallback has decoded a text with BUMP_LF=5 and REBOUND_LF=6 in
\* SUSPENSION and BUMP_LF=8 alone in DAMPER: the front bump is 8 and the
\* front rebound is zero
C27_Witness ==
  \E i \in {Len(hist)} :
    /\ IsParse(i) /\ hist[i].by = NoMapping
    /\ Sub(RawOf(hist[i - 1].text), "SUSPENSION", "BUMP_LF") = Str(N(5))
    /\ Sub(RawOf(hist[i - 1].text), "SUSPENSION", "REBOUND_LF") = Str(N(6))
    /\ Sub(RawOf(hist[i - 1].text), "DAMPER", "BUMP_LF") = Str(N(8))
    /\ Absent(Sub(RawOf(hist[i - 1].text), "DAMPER", "REBOUND_LF"))
    /\ getNestedProperty(hist[i].setup, <<"dampers", "front", "bump">>) = Int0(8)
    /\ getNestedProperty(hist[i].setup, <<"dampers", "front", "rebound">>) = Int0(0)

(***************************************************************************)
(* The functions of the package                                            *)
(***************************************************************************)
\* the two built-in mappings by carId
TwoBuiltIn ==
  ("ferrari_488_gt3" :> ferrari488GT3Mapping) @@ ("porsche_911_gt3r" :> porsche911GT3RMapping)

\* C28: every call of the package's parseSetupString and convertToSto
\* runs against exactly the two built-in mappings: whatever
\* registerCarMapping calls were made on a SetupParser and whatever calls
\* of the package's functions came before, the call selects the built-in
\* mapping of the carId, or the fallback for any other carId, and returns
\* what a parser with the two built-in mappings returns.
C28_PackageUsesBuiltIns ==
  \A i \in {Len(hist)} :
    i >= 2 =>
      /\ hist[i].from = "parseSetupString" =>
           /\ hist[i].by = (IF hist[i].setup.p[<<"carId">>].s \in {<<id>> : id \in DOMAIN TwoBuiltIn}
                            THEN TwoBuiltIn[hist[i].setup.p[<<"carId">>].s[1]] ELSE NoMapping)
           /\ \E now \in Clock : hist[i].setup = parseString(TwoBuiltIn, hist[i - 1].text, now)
      /\ hist[i].from = "module convertToSto" =>
           /\ hist[i].by = (IF hist[i - 1].setup.p[<<"carId">>].s \in {<<id>> : id \in DOMAIN TwoBuiltIn}
                            THEN TwoBuiltIn[hist[i - 1].setup.p[<<"carId">>].s[1]] ELSE NoMapping)
           /\ \E now \in Clock : hist[i].text = convertToSto(TwoBuiltIn, hist[i - 1].setup, now)

\* a SetupParser has the second definition registered for the Ferrari's
\* carId, a call of the package's convertToSto has written a Ferrari
\* record and a call of parseSetupString has decoded the text: both calls
\* selected the built-in Ferrari mapping
C28_Witness ==
  \E i \in {Len(hist)} :
    /\ i >= 3
    /\ "ferrari_488_gt3" \in DOMAIN carMappings
    /\ carMappings["ferrari_488_gt3"] = ferrariRedefined
    /\ hist[i - 1].from = "module convertToSto" /\ hist[i - 1].by = ferrari488GT3Mapping
    /\ hist[i].from = "parseSetupString" /\ hist[i].by = ferrari488GT3Mapping

(***************************************************************************)
(* The SetupEditor                                                         *)
(***************************************************************************)
\* v is a number within the range of the rule of path
WithinRule(path, v) ==
  /\ v.t = "num"
  /\ ~NumLess(v, setupValidationRules[path].min)
  /\ ~NumLess(setupValidationRules[path].max, v)

\* C29: whatever the parameter changes, resets and saves, onSave is
\* called only when validationErrors is empty, and the setup it is given
\* holds, for every parameter changed since the last load or reset, a
\* value within the range of the parameter's rule; a reset leaves the
\* edited copy equal to the loaded setup, no error, and the modified flag
\* down.
C29_SaveOnlyValid ==
  /\ editor.onSave.called =>
       /\ editor.onSave.errors = {}
       /\ \A path \in editor.onSave.changed :
            WithinRule(path, getNestedProperty(editor.onSave.setup, path))
  /\ editor.event = "save" /\ editor.validationErrors # {} => ~editor.onSave.called
  /\ editor.event = "reset" =>
       /\ editor.editedSetup = editor.setupData
       /\ editor.validationErrors = {}
       /\ ~editor.isModified

\* a setup with a brake bias of 0 was loaded, the brake bias was changed
\* (at some point to 44.9, which is an error) and is now 50, the front
\* wing was changed to 5, and Save has called onSave with that setup
C29_Witness ==
  /\ editor.event = "save" /\ editor.onSave.called
  /\ getNestedProperty(editor.setupData, <<"brakeBias">>) = Int0(0)
  /\ editor.onSave.changed = {<<"brakeBias">>, <<"aero", "frontWing">>}
  /\ getNestedProperty(editor.onSave.setup, <<"brakeBias">>) = Int0(50)
  /\ getNestedProperty(editor.onSave.setup, <<"aero", "frontWing">>) = Int0(5)

(***************************************************************************)
(* Setting a field by its dotted path                                      *)
(***************************************************************************)
\* the entries of the mapping m that find their key in the raw table
FoundEntries(m, raw) ==
  {j \in 1..Len(MappingEntries(m.fieldMappings)) :
     ~Absent(Sub(raw, MappingEntries(m.fieldMappings)[j].section,
                 MappingEntries(m.fieldMappings)[j].source))}

\* the parts of the target of entry j, before the last, that hold a value
\* that is no container when the entry is reached: a number, a string or
\* null of the fresh record, or the target of an entry found before j
BlockedAt(m, raw, fresh, j) ==
  LET es == MappingEntries(m.fieldMappings)
  IN {n \in 1..(Len(es[j].target) - 1) :
        \/ /\ Prefix(es[j].target, n) \in DOMAIN fresh.p
           /\ fresh.p[Prefix(es[j].target, n)].t \notin {"object", "undefined"}
        \/ \E k \in FoundEntries(m, raw) : k < j /\ es[k].target = Prefix(es[j].target, n)}

\* the text that the last parseString, which threw, was given, and the
\* mapping registered for its CAR
ThrownText == last.arg[1]
ThrownBy == Selected(carMappings, Top(RawOf(ThrownText), "CAR"))

C30_Discarded ==
  \E i \in {Len(hist)} :
    /\ IsParse(i) /\ hist[i].by = conflictingMapping
    /\ ~Absent(Sub(RawOf(hist[i - 1].text), "BRAKE", "BIAS_X"))
    /\ getNestedProperty(hist[i].setup, <<"electronics", "tc", "level">>) = Int0(3)
    /\ getNestedProperty(hist[i].setup, <<"brakeBias">>) = Int0(50)

====
